---- MODULE Spec2Model ----
(***************************************************************************)
(* A model of amaranth/back/unnamed.py: the Emitter that lowers an         *)
(* Amaranth netlist (_nir.Netlist) to the line-oriented text of the        *)
(* "unnamed" intermediate representation.                                  *)
(*                                                                         *)
(* The Emitter object is the record held by the variable em; its fields    *)
(* carry the names of the Python attributes.  Methods are operators from   *)
(* an Emitter record (and arguments) to the Emitter record after the call  *)
(* (and the value returned).                                               *)
(***************************************************************************)
EXTENDS Integers, Sequences, FiniteSets, TLC

VARIABLES
    em,      \* the Emitter object
    calls,   \* log of the reserve_ucell calls made
    arg,     \* the argument of the call under examination
    out,     \* its result
    pc       \* position in the run

vars == <<em, calls, arg, out, pc>>

\* ------------------------------------------------------------------ bounds

\* Largest slot width passed to reserve_ucell in the allocator runs.
MaxWidth == 3
\* Longest sequence of reserve_ucell calls in the allocator runs.
MaxCalls == 4
\* Longest string handed to escape_string in the escaping runs.
MaxStrLen == 3
\* Most slots reserved, and the largest slot width and vector length, in the
\* rendering runs.
RenderSlots == 2
RenderWidth == 2
\* Most distinct contents looked up in the interner runs.
MaxContents == 3

\* The number of ports of the memories of a netlist.
MaxPorts == 3

\* The number of places of a whole netlist.
MaxCells == 2

\* The widest read port of a memory of SpecPorts.
MaxPortWidth == 2

\* ----------------------------------------------------------------- helpers

Max(a, b) == IF a >= b THEN a ELSE b

EmptyMap == [x \in {} |-> 0]

Range(f) == {f[x] : x \in DOMAIN f}

\* The sequences over alphabet of length at most n.
RECURSIVE StringsUpTo(_, _)
StringsUpTo(alphabet, n) ==
    IF n = 0 THEN {<<>>}
    ELSE LET shorter == StringsUpTo(alphabet, n - 1) IN
         shorter \cup {<<c>> \o s : c \in alphabet, s \in {t \in shorter : Len(t) = n - 1}}

\* None, where Python holds None in place of a slot id.
None == -1

\* UnnamedNet(cell, bit); UnnamedNet.from_const(value) has cell None.
UnnamedNet(cell, bit) == [cell |-> cell, bit |-> bit]

from_const(bit) == UnnamedNet(None, bit)

\* _nir.Net: <<cell, bit>>, the constant nets being <<None, 0>>, <<None, 1>>.
NetConst(bit) == <<None, bit>>

\* No exception is propagating out of emit().
NoException == ""

\* A _nir.Netlist: the cells (numbered from 0, cell 0 the Top cell), the IO
\* ports, the modules, and the ports of the top cell: ports_i a list of
\* <<name, start, width>>, ports_o a list of <<name, value>>.
Netlist(cells, io_ports, modules, ports_i, ports_o) ==
    [cells |-> cells, io_ports |-> io_ports, modules |-> modules,
     ports_i |-> ports_i, ports_o |-> ports_o]

EmptyNetlist == Netlist(<<>>, <<>>, <<>>, <<>>, <<>>)

\* Emitter.__init__; raised is the exception propagating out of the run, once
\* one is raised (the statements after a raise are not executed).
Emitter(netlist) ==
    [ netlist      |-> netlist,
      lines        |-> <<>>,
      net_map      |-> (NetConst(0) :> from_const(0)) @@ (NetConst(1) :> from_const(1)),
      cell_map     |-> EmptyMap,
      ucell_width  |-> EmptyMap,
      memory_ports |-> EmptyMap,
      next_ucell   |-> 0,
      next_meta    |-> 0,
      module_meta  |-> EmptyMap,
      src_loc_meta |-> EmptyMap,
      set_meta     |-> EmptyMap,
      ident_meta   |-> EmptyMap,
      attr_meta    |-> EmptyMap,
      raised       |-> NoException ]

InitEmitter == Emitter(EmptyNetlist)

\* A map with key k (re)bound to v, as Python's d[k] = v.
Put(map, k, v) == [x \in (DOMAIN map) \cup {k} |-> IF x = k THEN v ELSE map[x]]

\* ------------------------------------------------------------------- text

\* A Python str is a sequence of characters, each a one-character string;
\* a character outside printable ASCII is written <hh>, hh its byte in hex.
\* HexOfByte is bytes.hex() on the characters outside \x20-\x7e.
HexOfByte ==
    ("<00>" :> <<"0", "0">>) @@ ("<01>" :> <<"0", "1">>) @@
    ("<10>" :> <<"1", "0">>) @@ ("<11>" :> <<"1", "1">>)

\* The characters the class [^"\x20-\x7e] matches.
EscapedClass(c) == c # "\"" /\ c \in DOMAIN HexOfByte

RECURSIVE EscapeChars(_)
\* re.sub over the runs of matched characters: each byte of a run becomes a
\* backslash and its two hex digits, everything else is copied.
EscapeChars(s) ==
    IF s = <<>> THEN <<>>
    ELSE (IF EscapedClass(Head(s))
          THEN <<"\\">> \o HexOfByte[Head(s)]
          ELSE <<Head(s)>>) \o EscapeChars(Tail(s))

\* Emitter.escape_string
escape_string(s) == <<"\"">> \o EscapeChars(s) \o <<"\"">>

RECURSIVE Join(_)
\* "".join(chars)
Join(chars) == IF chars = <<>> THEN "" ELSE Head(chars) \o Join(Tail(chars))

Digit == <<"0", "1", "2", "3", "4", "5", "6", "7", "8", "9">>

RECURSIVE IntStr(_)
\* str(n), as an f-string renders an int.
IntStr(n) ==
    IF n < 0 THEN "-" \o IntStr(-n)
    ELSE IF n < 10 THEN Digit[n + 1]
    ELSE IntStr(n \div 10) \o Digit[(n % 10) + 1]

RECURSIVE BinDigits(_)
BinDigits(n) == IF n < 2 THEN Digit[n + 1] ELSE BinDigits(n \div 2) \o Digit[(n % 2) + 1]

RECURSIVE Zeros(_)
Zeros(n) == IF n <= 0 THEN "" ELSE "0" \o Zeros(n - 1)

\* f"{n:0{width}b}" for n >= 0: binary, zero-padded to width digits.
BinStr(n, width) == Zeros(width - Len(BinDigits(n))) \o BinDigits(n)

RECURSIVE JoinWords(_)
\* " ".join(words)
JoinWords(words) ==
    IF words = <<>> THEN ""
    ELSE IF Len(words) = 1 THEN words[1]
    ELSE words[1] \o " " \o JoinWords(Tail(words))

\* One element of self.lines: the text of the line, with what it was built
\* from (kind: io, meta, ucell or sub; the opcode; the id and width printed
\* before "="; data: the ids or values the text prints).
Line(kind, op, id, width, data, text) ==
    [kind |-> kind, op |-> op, id |-> id, width |-> width, data |-> data, text |-> text]

\* self.lines.append(line), unless an exception is propagating.
AppendLine(e, line) ==
    IF e.raised # NoException THEN e ELSE [e EXCEPT !.lines = Append(e.lines, line)]

\* raise exc
Raise(e, exc) == IF e.raised # NoException THEN e ELSE [e EXCEPT !.raised = exc]

\* ---------------------------------------------------------- slot allocator

\* reserve_ucell with the cursor advanced by width alone.
reserve_ucell_no_max(e, width) ==
    [ e      |-> [e EXCEPT !.next_ucell = e.next_ucell + width,
                           !.ucell_width = Put(e.ucell_width, e.next_ucell, width)],
      result |-> e.next_ucell ]

\* Emitter.reserve_ucell: returns the cursor, advances it by max(width, 1)
\* and records the width under the returned id.
reserve_ucell(e, width) ==
    [ e      |-> [e EXCEPT !.next_ucell = e.next_ucell + Max(width, 1),
                           !.ucell_width = Put(e.ucell_width, e.next_ucell, width)],
      result |-> e.next_ucell ]

\* Emitter.ucell_output
ucell_output(e, ucell) ==
    [bit \in 1..e.ucell_width[ucell] |-> UnnamedNet(ucell, bit - 1)]

\* Emitter.uzero, Emitter.uones
uzero(width) == [bit \in 1..width |-> from_const(0)]

uones(width) == [bit \in 1..width |-> from_const(1)]

\* uvalue[:n]
Take(seq, n) == SubSeq(seq, 1, IF n < Len(seq) THEN n ELSE Len(seq))

\* _nir.Value(_nir.Net.from_cell(cell, start + bit) for bit in range(width))
CellNets(cell, start, width) == [bit \in 1..width |-> <<cell, start + bit - 1>>]

\* Emitter.assign_nets: binds each net of value to the resolved bit at its
\* position; AssertionError when the lengths differ.
assign_nets(e, val, uvalue) ==
    IF e.raised # NoException THEN e
    ELSE IF Len(val) # Len(uvalue) THEN Raise(e, "AssertionError")
    ELSE [e EXCEPT !.net_map =
            [net \in (DOMAIN e.net_map) \cup Range(val) |->
                IF net \in Range(val)
                THEN uvalue[CHOOSE i \in 1..Len(val) :
                                val[i] = net /\ \A j \in (i + 1)..Len(val) : val[j] # net]
                ELSE e.net_map[net]]]

\* self.cell_map[cell_index] = ucells, unless an exception is propagating.
SetCellMap(e, cell_index, ucells) ==
    IF e.raised # NoException THEN e
    ELSE [e EXCEPT !.cell_map = Put(e.cell_map, cell_index, ucells)]

\* ---------------------------------------------------------- value resolver

\* Emitter.value: the resolved bit of every net; KeyError for a net that
\* net_map does not hold.
value(e, val) ==
    IF \A i \in 1..Len(val) : val[i] \in DOMAIN e.net_map
    THEN [e |-> e, result |-> [i \in 1..Len(val) |-> e.net_map[val[i]]]]
    ELSE [e |-> Raise(e, "KeyError"), result |-> <<>>]

Reverse(seq) == [i \in 1..Len(seq) |-> seq[Len(seq) + 1 - i]]

\* One operand of the bracketed form: the bit, or %cell+bit.
BitStr(unet) ==
    IF unet.cell = None THEN IntStr(unet.bit)
    ELSE "%" \o IntStr(unet.cell) \o "+" \o IntStr(unet.bit)

\* uvalue_str with the single-bit form tried before the full-range form.
uvalue_str_bit_first(e, uvalue) ==
    IF uvalue = <<>> THEN "[]"
    ELSE IF \A i \in 1..Len(uvalue) : uvalue[i].cell = None
    THEN Join([i \in 1..Len(uvalue) |-> IntStr(Reverse(uvalue)[i].bit)])
    ELSE IF Len(uvalue) = 1
    THEN "%" \o IntStr(uvalue[1].cell) \o "+" \o IntStr(uvalue[1].bit)
    ELSE IF uvalue[1].cell # None /\ uvalue = ucell_output(e, uvalue[1].cell)
    THEN "%" \o IntStr(uvalue[1].cell) \o ":" \o IntStr(e.ucell_width[uvalue[1].cell])
    ELSE "[ " \o JoinWords([i \in 1..Len(uvalue) |-> BitStr(Reverse(uvalue)[i])]) \o " ]"

\* Emitter.uvalue_str
uvalue_str(e, uvalue) ==
    IF uvalue = <<>> THEN "[]"
    ELSE IF \A i \in 1..Len(uvalue) : uvalue[i].cell = None
    THEN Join([i \in 1..Len(uvalue) |-> IntStr(Reverse(uvalue)[i].bit)])
    ELSE IF uvalue[1].cell # None /\ uvalue = ucell_output(e, uvalue[1].cell)
    THEN IF Len(uvalue) = 1
         THEN "%" \o IntStr(uvalue[1].cell)
         ELSE "%" \o IntStr(uvalue[1].cell) \o ":" \o IntStr(e.ucell_width[uvalue[1].cell])
    ELSE IF Len(uvalue) = 1
    THEN "%" \o IntStr(uvalue[1].cell) \o "+" \o IntStr(uvalue[1].bit)
    ELSE "[ " \o JoinWords([i \in 1..Len(uvalue) |-> BitStr(Reverse(uvalue)[i])]) \o " ]"

\* ------------------------------------------------------- reservation pass

\* emit(), "collect memory ports": the cell indices of the ports of each
\* memory, in the order of the cell list; from cell number cell_index on.
RECURSIVE collect_memory_ports(_, _)
collect_memory_ports(e, cell_index) ==
    IF cell_index >= Len(e.netlist.cells) THEN e
    ELSE LET cell == e.netlist.cells[cell_index + 1] IN
         IF cell.kind \in {"SyncWritePort", "SyncReadPort", "AsyncReadPort"}
         THEN collect_memory_ports(
                [e EXCEPT !.memory_ports =
                    Put(e.memory_ports, cell.memory,
                        (IF cell.memory \in DOMAIN e.memory_ports
                         THEN e.memory_ports[cell.memory] ELSE <<>>) \o <<cell_index>>)],
                cell_index + 1)
         ELSE collect_memory_ports(e, cell_index + 1)

\* ucell = self.reserve_ucell(width); self.assign_nets(value,
\* self.ucell_output(ucell)[:n]); self.cell_map[cell_index] = ucell
reserve_one(e, cell_index, nets, width, n) ==
    LET r == reserve_ucell(e, width)
    IN  SetCellMap(assign_nets(r.e, nets, Take(ucell_output(r.e, r.result), n)),
                   cell_index, <<r.result>>)

\* One slot of width w2 cached for both places of the pair.
reserve_two_shared(e, cell_index, nets, w1, w2, n) ==
    LET r == reserve_ucell(e, w2)
    IN  SetCellMap(assign_nets(r.e, nets, Take(ucell_output(r.e, r.result), n)),
                   cell_index, <<r.result, r.result>>)

\* Two slots, of widths w1 and w2; the nets are bound to the first n bits of
\* the second one; cell_map holds the pair.
reserve_two(e, cell_index, nets, w1, w2, n) ==
    LET r1 == reserve_ucell(e, w1)
        r2 == reserve_ucell(r1.e, w2)
    IN  SetCellMap(assign_nets(r2.e, nets, Take(ucell_output(r2.e, r2.result), n)),
                   cell_index, <<r1.result, r2.result>>)

RECURSIVE reserve_many(_, _, _)
\* [self.reserve_ucell(width) for _ in range(count)]
reserve_many(e, width, count) ==
    IF count <= 0 THEN [e |-> e, result |-> <<>>]
    ELSE LET r    == reserve_ucell(e, width)
             rest == reserve_many(r.e, width, count - 1)
         IN  [e |-> rest.e, result |-> <<r.result>> \o rest.result]

\* The operator cells of the reservation pass (lines 220-271).
reserve_operator(e, cell_index, cell) ==
    LET nets  == CellNets(cell_index, 0, cell.width)
        op    == cell.operator
        arity == Len(cell.inputs)
    IN  CASE op = "~" /\ arity = 1 ->
                reserve_one(e, cell_index, nets, cell.width, cell.width)
          [] op = "-" /\ arity \in {1, 2} ->
                reserve_two(e, cell_index, nets, cell.width, cell.width + 1, cell.width)
          [] op \in {"b", "r|"} /\ arity = 1 ->
                reserve_two(e, cell_index, nets, 1, 1, 1)
          [] op = "r&" /\ arity = 1 ->
                reserve_one(e, cell_index, nets, 1, 1)
          [] op = "r^" /\ arity = 1 ->
                LET r == reserve_many(e, 1, Len(cell.inputs[1])) IN
                SetCellMap(
                    IF r.result # <<>>
                    THEN assign_nets(r.e, nets, ucell_output(r.e, r.result[Len(r.result)]))
                    ELSE assign_nets(r.e, nets, uzero(1)),
                    cell_index, r.result)
          [] op = "+" /\ arity = 2 ->
                reserve_one(e, cell_index, nets, cell.width + 1, cell.width)
          [] op \in {"*", "&", "^", "|", "<<", "u>>", "s>>", "==", "u<", "u>", "s<", "s>"}
                /\ arity = 2 ->
                reserve_one(e, cell_index, nets, cell.width, cell.width)
          [] op \in {"u//", "s//", "u%", "s%"} /\ arity = 2 ->
                LET r1 == reserve_ucell(e, 1)
                    r2 == reserve_ucell(r1.e, cell.width)
                    r3 == reserve_ucell(r2.e, cell.width)
                IN  SetCellMap(assign_nets(r3.e, nets, ucell_output(r3.e, r3.result)),
                               cell_index, <<r1.result, r2.result, r3.result>>)
          [] op \in {"!=", "u<=", "u>=", "s<=", "s>="} /\ arity = 2 ->
                reserve_two(e, cell_index, nets, 1, 1, 1)
          [] op = "m" /\ arity = 3 ->
                reserve_one(e, cell_index, nets, cell.width, cell.width)
          [] OTHER -> Raise(e, "AssertionError")

\* The read ports among the ports of a memory, in their order.
ReadPorts(e, ports) ==
    SelectSeq(ports, LAMBDA p : e.netlist.cells[p + 1].kind \in {"SyncReadPort", "AsyncReadPort"})

RECURSIVE SumWidths(_, _)
SumWidths(e, ports) ==
    IF ports = <<>> THEN 0
    ELSE e.netlist.cells[Head(ports) + 1].width + SumWidths(e, Tail(ports))

\* The offset left where it is after a read port.
next_offset_same(offset, port) == offset

\* offset += port.width (line 306)
next_offset(offset, port) == offset + port.width

RECURSIVE assign_read_ports(_, _, _, _)
\* The second loop of the Memory case: the data nets of each read port are
\* bound to ucell_output(ucell)[offset:offset + port.width].
assign_read_ports(e, ucell, ports, offset) ==
    IF ports = <<>> THEN e
    ELSE LET port_index == Head(ports)
             port == e.netlist.cells[port_index + 1]
             bits == ucell_output(e, ucell)
             part == SubSeq(bits, offset + 1,
                            IF offset + port.width < Len(bits) THEN offset + port.width ELSE Len(bits))
         IN  assign_read_ports(assign_nets(e, CellNets(port_index, 0, port.width), part),
                               ucell, Tail(ports), next_offset(offset, port))

RECURSIVE reserve_instance_ports(_, _, _)
\* The loop of the Instance case over cell.ports_o, from port number k on.
reserve_instance_ports(e, cell_index, k) ==
    LET ports_o == e.netlist.cells[cell_index + 1].ports_o IN
    IF k > Len(ports_o) THEN e
    ELSE LET start == ports_o[k][2]
             width == ports_o[k][3]
             r  == reserve_ucell(e, width)
             e1 == assign_nets(r.e, CellNets(cell_index, start, width),
                               ucell_output(r.e, r.result))
             e2 == IF start = 0 THEN SetCellMap(e1, cell_index, <<r.result>>) ELSE e1
         IN  reserve_instance_ports(e2, cell_index, k + 1)

\* A cell of another kind passed over without an error.
unsupported_skipped(e, cell) == e

\* raise TypeError(f"{cell.__class__.__name__} is not currently supported for
\* Unnamed output") (line 325)
unsupported(e, cell) ==
    Raise(e, "TypeError: " \o cell.kind \o " is not currently supported for Unnamed output")

\* One iteration of the loop "reserve cell indices" (lines 217-325).
reserve_cell(e, cell_index) ==
    LET cell == e.netlist.cells[cell_index + 1] IN
    CASE cell.kind = "Top" -> e
      [] cell.kind = "Operator" -> reserve_operator(e, cell_index, cell)
      [] cell.kind = "Part" ->
            reserve_one(e, cell_index, CellNets(cell_index, 0, cell.width),
                        Max(cell.width, Len(cell.value)), cell.width)
      [] cell.kind = "Match" ->
            reserve_one(e, cell_index, CellNets(cell_index, 0, Len(cell.patterns)),
                        Len(cell.patterns), Len(cell.patterns))
      [] cell.kind = "AssignmentList" ->
            LET r == reserve_many(e, Len(cell.default), Max(1, Len(cell.assignments))) IN
            SetCellMap(
                IF r.result # <<>>
                THEN assign_nets(r.e, CellNets(cell_index, 0, Len(cell.default)),
                                 ucell_output(r.e, r.result[Len(r.result)]))
                ELSE r.e,
                cell_index, r.result)
      [] cell.kind = "FlipFlop" ->
            reserve_one(e, cell_index, CellNets(cell_index, 0, Len(cell.data)),
                        Len(cell.data), Len(cell.data))
      [] cell.kind = "Memory" ->
            LET e0    == IF cell_index \in DOMAIN e.memory_ports THEN e
                         ELSE [e EXCEPT !.memory_ports = Put(e.memory_ports, cell_index, <<>>)]
                reads == ReadPorts(e0, e0.memory_ports[cell_index])
                r     == reserve_ucell(e0, SumWidths(e0, reads))
            IN  SetCellMap(assign_read_ports(r.e, r.result, reads, 0), cell_index, <<r.result>>)
      [] cell.kind \in {"SyncWritePort", "SyncReadPort", "AsyncReadPort"} -> e
      [] cell.kind = "Instance" ->
            LET e1 == reserve_instance_ports(e, cell_index, 1) IN
            IF Len(cell.ports_o) = 0
            THEN LET r == reserve_ucell(e1, 0) IN SetCellMap(r.e, cell_index, <<r.result>>)
            ELSE e1
      [] cell.kind = "IOBuffer" ->
            reserve_one(e, cell_index, CellNets(cell_index, 0, Len(cell.port)),
                        Len(cell.o), Len(cell.o))
      [] OTHER -> unsupported(e, cell)

\* ------------------------------------------------------ metadata interner

\* A source location is <<fname, line>>; NoSrcLoc is Python's None.
NoSrcLoc == <<>>

\* Emitter.emit_meta: the next metadata index, one more line.
emit_meta(e, op, data, words) ==
    IF e.raised # NoException THEN [e |-> e, result |-> None]
    ELSE [ e      |-> AppendLine([e EXCEPT !.next_meta = e.next_meta + 1],
                         Line("meta", op, e.next_meta, None, data,
                              "!" \o IntStr(e.next_meta) \o " = " \o JoinWords(words))),
           result |-> e.next_meta ]

\* Emitter.emit_src_loc, for a src_loc that is not None.
emit_src_loc(e, src_loc) ==
    IF src_loc \in DOMAIN e.src_loc_meta
    THEN [e |-> e, result |-> e.src_loc_meta[src_loc]]
    ELSE LET pos == "(#" \o IntStr(src_loc[2] - 1) \o " #0)"
             r   == emit_meta(e, "source", src_loc,
                              <<"source", Join(escape_string(src_loc[1])), pos, pos>>)
         IN  [ e      |-> [r.e EXCEPT !.src_loc_meta = Put(e.src_loc_meta, src_loc, r.result)],
               result |-> r.result ]

\* Emitter.emit_ident
emit_ident(e, ident, scope) ==
    IF <<ident, scope>> \in DOMAIN e.ident_meta
    THEN [e |-> e, result |-> e.ident_meta[<<ident, scope>>]]
    ELSE LET r == emit_meta(e, "ident", <<ident, scope>>,
                            <<"ident", Join(escape_string(ident)), "in=!" \o IntStr(scope)>>)
         IN  [ e      |-> [r.e EXCEPT !.ident_meta = Put(e.ident_meta, <<ident, scope>>, r.result)],
               result |-> r.result ]

\* sorted(meta), by insertion.
RECURSIVE Sorted(_)
Sorted(seq) ==
    IF seq = <<>> THEN <<>>
    ELSE LET rest == Sorted(Tail(seq))
             x    == Head(seq)
             k    == Cardinality({i \in 1..Len(rest) : rest[i] < x})
         IN  SubSeq(rest, 1, k) \o <<x>> \o SubSeq(rest, k + 1, Len(rest))

\* tuple(meta), the arguments in the order given.
Unsorted(seq) == seq

\* The key under which emit_meta_set files the ids: tuple(sorted(meta)).
SetKey(meta) == Sorted(meta)

\* Emitter.emit_meta_set
emit_meta_set(e, meta) ==
    IF Len(meta) = 1 THEN [e |-> e, result |-> meta[1]]
    ELSE LET key == SetKey(meta) IN
         IF key \in DOMAIN e.set_meta
         THEN [e |-> e, result |-> e.set_meta[key]]
         ELSE LET r == emit_meta(e, "set", key,
                        <<"{ " \o JoinWords([i \in 1..Len(key) |-> "!" \o IntStr(key[i])]) \o " }">>)
              IN  [ e      |-> [r.e EXCEPT !.set_meta = Put(e.set_meta, key, r.result)],
                    result |-> r.result ]

\* A parameter or attribute value: a Python int, an _ast.Const or a str;
\* anything else has another type.
IntValue(n) == [type |-> "int", value |-> n, width |-> 0, chars |-> <<>>]
ConstValue(n, width) == [type |-> "Const", value |-> n, width |-> width, chars |-> <<>>]
StrValue(chars) == [type |-> "str", value |-> 0, width |-> 0, chars |-> chars]
OtherValue == [type |-> "other", value |-> 0, width |-> 0, chars |-> <<>>]

\* Emitter.param_value: the text of the value; TypeError for another type.
param_value(e, val) ==
    CASE val.type = "int"   -> [e |-> e, result |-> "#" \o IntStr(val.value)]
      [] val.type = "Const" -> [e |-> e, result |-> BinStr(val.value, val.width)]
      [] val.type = "str"   -> [e |-> e, result |-> Join(escape_string(val.chars))]
      [] OTHER                ->
            [e |-> Raise(e, "TypeError: cannot handle parameter"), result |-> ""]

\* Emitter.emit_attr
emit_attr(e, name, val) ==
    LET p == param_value(e, val) IN
    IF p.e.raised # NoException THEN [e |-> p.e, result |-> None]
    ELSE IF <<name, p.result>> \in DOMAIN e.attr_meta
    THEN [e |-> e, result |-> e.attr_meta[<<name, p.result>>]]
    ELSE LET r == emit_meta(e, "attr", <<name, p.result>>,
                            <<"attr", Join(escape_string(name)), p.result>>)
         IN  [ e      |-> [r.e EXCEPT !.attr_meta = Put(e.attr_meta, <<name, p.result>>, r.result)],
               result |-> r.result ]

\* A module of netlist.modules: its name path, the index of its parent (None
\* for the top module), its source location and its signal names.
Module(name, parent, src_loc, signal_names) ==
    [name |-> name, parent |-> parent, src_loc |-> src_loc, signal_names |-> signal_names]

RECURSIVE emit_scopes(_, _, _)
\* emit(), "emit scope metadata": one scope record per module, in order, from
\* module number index on (modules are numbered from 0).
emit_scopes(e, modules, index) ==
    IF index >= Len(modules) THEN e
    ELSE LET module == modules[index + 1]
             name   == Join(escape_string(module.name[Len(module.name)]))
             parent == IF module.parent # None
                       THEN <<"in=!" \o IntStr(e.module_meta[module.parent])>> ELSE <<>>
             s      == IF module.src_loc # NoSrcLoc
                       THEN emit_src_loc(e, module.src_loc) ELSE [e |-> e, result |-> None]
             src    == IF module.src_loc # NoSrcLoc
                       THEN <<"src=!" \o IntStr(s.result)>> ELSE <<>>
             r      == emit_meta(s.e, "scope", index, <<"scope", name>> \o parent \o src)
         IN  emit_scopes([r.e EXCEPT !.module_meta = Put(s.e.module_meta, index, r.result)],
                         modules, index + 1)

\* ------------------------------------------- allocator runs (SpecReserve)

InitReserve ==
    /\ em = InitEmitter
    /\ calls = <<>>
    /\ arg = <<>>
    /\ out = <<>>
    /\ pc = "reserve"

\* One call reserve_ucell(width); calls logs the cursor seen before and
\* after the call and the value returned.
Reserve(width) ==
    /\ Len(calls) < MaxCalls
    /\ LET r == reserve_ucell(em, width) IN
        /\ em' = r.e
        /\ calls' = Append(calls, [ width  |-> width,
                                    result |-> r.result,
                                    before |-> em.next_ucell,
                                    after  |-> r.e.next_ucell ])
        /\ UNCHANGED <<arg, out, pc>>

NextReserve == \E width \in 0..MaxWidth : Reserve(width)

SpecReserve == InitReserve /\ [][NextReserve]_vars

\* C1: every reserve call returned the cursor at the time of the call and
\* advanced it by max(width, 1); returned slot ids strictly increase, the id
\* ranges [id, id + max(width, 1)) of distinct slots never overlap, and the
\* width recorded for a slot id is not changed by a later reserve.
C1_ReserveMonotonic ==
    /\ \A i \in 1..Len(calls) :
        /\ calls[i].result = calls[i].before
        /\ calls[i].after = calls[i].before + Max(calls[i].width, 1)
        /\ calls[i].result \in DOMAIN em.ucell_width
        /\ em.ucell_width[calls[i].result] = calls[i].width
    /\ \A i, j \in 1..Len(calls) :
        i < j =>
            /\ calls[i].result < calls[j].result
            /\ calls[i].result + Max(calls[i].width, 1) <= calls[j].result
    /\ Cardinality(DOMAIN em.ucell_width) = Len(calls)

\* A zero-width slot was reserved and later calls, of other widths, followed.
C1_Witness ==
    /\ Len(calls) >= 3
    /\ calls[1].width = 0
    /\ calls[2].width = 2
    /\ calls[3].width = 0

\* ---------------------------------------------------------- emission pass

\* Emitter.iovalue_str; an IOValue is a list of <<port, bit>>, the ports
\* numbered from 0 in netlist.io_ports, each [name, width].
IOBitStr(e, ionet) ==
    "&" \o Join(escape_string(e.netlist.io_ports[ionet[1] + 1].name)) \o "+" \o IntStr(ionet[2])

iovalue_str(e, iovalue) ==
    IF iovalue = <<>> THEN "[]"
    ELSE LET port0 == e.netlist.io_ports[iovalue[1][1] + 1]
             name0 == "&" \o Join(escape_string(port0.name))
         IN  IF /\ port0.width = Len(iovalue)
                /\ \A i \in 1..Len(iovalue) :
                       iovalue[i][1] = iovalue[1][1] /\ iovalue[i][2] = i - 1
             THEN IF Len(iovalue) = 1 THEN name0
                  ELSE name0 \o ":" \o IntStr(Len(iovalue))
             ELSE IF Len(iovalue) = 1 THEN name0 \o "+" \o IntStr(iovalue[1][2])
             ELSE "[ " \o JoinWords([i \in 1..Len(iovalue) |-> IOBitStr(e, Reverse(iovalue)[i])])
                       \o " ]"

\* The arguments handed to emit_ucell: a _nir.Value (or Net), an IOValue, a
\* str, an int, or a list of UnnamedNet.
VArg(val) == [t |-> "value", val |-> val, uvalue |-> <<>>, text |-> "", n |-> 0]
IOArg(iovalue) == [t |-> "io", val |-> iovalue, uvalue |-> <<>>, text |-> "", n |-> 0]
SArg(text) == [t |-> "str", val |-> <<>>, uvalue |-> <<>>, text |-> text, n |-> 0]
NArg(n) == [t |-> "int", val |-> <<>>, uvalue |-> <<>>, text |-> "", n |-> n]
UArg(uvalue) == [t |-> "uvalue", val |-> <<>>, uvalue |-> uvalue, text |-> "", n |-> 0]

\* An argument as printed: its kind, the resolved bits of a value, the text.
Printed(t, uvalue, text, n) == [t |-> t, uvalue |-> uvalue, text |-> text, n |-> n]

RECURSIVE print_args(_, _)
\* The list comprehension of emit_ucell: each argument rendered, in order;
\* a value is resolved through net_map first.
print_args(e, args) ==
    IF e.raised # NoException \/ args = <<>> THEN [e |-> e, result |-> <<>>]
    ELSE LET a == Head(args)
             r == IF a.t = "value" THEN value(e, a.val) ELSE [e |-> e, result |-> a.uvalue]
             printed ==
                CASE a.t = "value"  -> Printed("value", r.result, uvalue_str(e, r.result), 0)
                  [] a.t = "io"     -> Printed("io", <<>>, iovalue_str(e, a.val), 0)
                  [] a.t = "str"    -> Printed("str", <<>>, a.text, 0)
                  [] a.t = "int"    -> Printed("int", <<>>, "#" \o IntStr(a.n), a.n)
                  [] OTHER          -> Printed("uvalue", a.uvalue, uvalue_str(e, a.uvalue), 0)
             rest == print_args(r.e, Tail(args))
         IN  [e |-> rest.e, result |-> <<printed>> \o rest.result]

\* Emitter.emit_ucell_raw
emit_ucell_raw(e, ucell, opcode, data, text, has_width) ==
    IF has_width
    THEN AppendLine(e, Line("ucell", opcode, ucell, e.ucell_width[ucell], data,
            "%" \o IntStr(ucell) \o ":" \o IntStr(e.ucell_width[ucell]) \o " = " \o text))
    ELSE AppendLine(e, Line("ucell", opcode, ucell, None, data,
            "%" \o IntStr(ucell) \o ":_ = " \o text))

\* The arguments of emit_ucell as printed, the meta reference appended
\* (lines 131-132).
with_meta(printed, meta) ==
    IF meta # None THEN printed \o <<Printed("meta", <<>>, "!" \o IntStr(meta), meta)>>
    ELSE printed

\* " ".join([opcode, *args]) (line 133).
ucell_text(opcode, data) == JoinWords(<<opcode>> \o [i \in 1..Len(data) |-> data[i].text])

\* Line 133, on the printed arguments.
emit_printed(e, ucell, opcode, data, has_width) ==
    emit_ucell_raw(e, ucell, opcode, data, ucell_text(opcode, data), has_width)

\* Lines 131-133, r being the outcome of the list comprehension.
emit_ucell_args(r, ucell, opcode, has_width, meta) ==
    emit_printed(r.e, ucell, opcode, with_meta(r.result, meta), has_width)

\* Emitter.emit_ucell; meta is None or a metadata id.
emit_ucell(e, ucell, opcode, args, has_width, meta) ==
    emit_ucell_args(print_args(e, args), ucell, opcode, has_width, meta)

RECURSIVE emit_ios(_, _)
\* emit(), "emit IOs", from port number k on.
emit_ios(e, k) ==
    IF k > Len(e.netlist.io_ports) THEN e
    ELSE LET port == e.netlist.io_ports[k] IN
         emit_ios(AppendLine(e, Line("io", "io", None, port.width, port.name,
                    "&" \o Join(escape_string(port.name)) \o ":" \o IntStr(port.width))),
                  k + 1)

RECURSIVE emit_inputs(_, _)
\* emit(), "emit inputs": per input of the top module a slot, bound to the
\* nets of cell 0, and an input line; from input number k on.
emit_inputs(e, k) ==
    IF k > Len(e.netlist.ports_i) THEN e
    ELSE LET name  == e.netlist.ports_i[k][1]
             start == e.netlist.ports_i[k][2]
             width == e.netlist.ports_i[k][3]
             r  == reserve_ucell(e, width)
             e1 == assign_nets(r.e, CellNets(0, start, width), ucell_output(r.e, r.result))
         IN  emit_inputs(emit_ucell(e1, r.result, "input",
                                    <<SArg(Join(escape_string(name)))>>, TRUE, None),
                         k + 1)

RECURSIVE emit_outputs(_, _)
\* emit(), lines 536-538: per output of the top module a width-0 slot and an
\* output line; from output number k on.
emit_outputs(e, k) ==
    IF k > Len(e.netlist.ports_o) \/ e.raised # NoException THEN e
    ELSE LET r == reserve_ucell(e, 0) IN
         emit_outputs(emit_ucell(r.e, r.result, "output",
                                 <<SArg(Join(escape_string(e.netlist.ports_o[k][1]))),
                                   VArg(e.netlist.ports_o[k][2])>>, TRUE, None),
                      k + 1)

RECURSIVE JoinNames(_)
\* " ".join(names), on character lists.
JoinNames(names) ==
    IF names = <<>> THEN <<>>
    ELSE IF Len(names) = 1 THEN names[1]
    ELSE names[1] \o <<" ">> \o JoinNames(Tail(names))

\* meta_parts and the outcome m of their merge.
merged(m, parts) == [e |-> m.e, result |-> m.result, parts |-> parts]

\* Lines 331-332 and 547-548, s being the outcome of emit_src_loc.
merge_src(s, first) == merged(emit_meta_set(s.e, <<first, s.result>>), <<first, s.result>>)

\* The metadata of a line: the merge of the first id with the id of the
\* source location, if there is one (lines 329-332, 545-548).
meta_with_src(e, first, src_loc) ==
    IF src_loc = NoSrcLoc THEN [e |-> e, result |-> first, parts |-> <<first>>]
    ELSE merge_src(emit_src_loc(e, src_loc), first)

\* Line 549, m being the outcome of lines 545-548.
emit_name(m, ucell, hier_name, val) ==
    emit_ucell(m.e, ucell, "name",
               <<SArg(Join(escape_string(hier_name))), VArg(val), SArg("!" \o IntStr(m.result))>>,
               TRUE, None)

\* Lines 545-549, i being the outcome of emit_ident.
emit_name_ident(i, ucell, hier_name, signal) ==
    emit_name(meta_with_src(i.e, i.result, signal.src_loc), ucell, hier_name, signal.value)

\* Lines 543-549, r being the outcome of reserve_ucell(0).
emit_name_slot(r, module_idx, module, signal) ==
    emit_name_ident(emit_ident(r.e, signal.name, r.e.module_meta[module_idx]),
                    r.result, JoinNames(module.name \o <<signal.name>>), signal)

RECURSIVE emit_names(_, _, _)
\* emit(), lines 540-549: one name record per signal name of each module; a
\* signal name is [name, value, src_loc], value being netlist.signals[signal].
emit_names(e, module_idx, k) ==
    IF module_idx >= Len(e.netlist.modules) \/ e.raised # NoException THEN e
    ELSE IF k > Len(e.netlist.modules[module_idx + 1].signal_names)
    THEN emit_names(e, module_idx + 1, 1)
    ELSE emit_names(emit_name_slot(reserve_ucell(e, 0), module_idx,
                                   e.netlist.modules[module_idx + 1],
                                   e.netlist.modules[module_idx + 1].signal_names[k]),
                    module_idx, k + 1)

RECURSIVE emit_xor_chain(_, _, _, _, _, _)
\* The loop of the r^ case: one xor per input bit, each taking the output of
\* the one before (the first one a constant 0).
emit_xor_chain(e, ucells, input, index, prev, meta) ==
    IF index > Len(ucells) THEN e
    ELSE emit_xor_chain(
            emit_ucell(e, ucells[index], "xor", <<UArg(prev), VArg(<<input[index]>>)>>, TRUE, meta),
            ucells, input, index + 1, ucell_output(e, ucells[index]), meta)

\* The opcode tables of lines 364-374, 381-386, 392-396 and 400-406.
Opcode ==
    [x \in {"*", "&", "|", "^", "==", "u<", "u>", "s<", "s>", "u//", "s//", "u%", "s%",
             "<<", "u>>", "s>>", "!=", "u>=", "u<=", "s>=", "s<="} |->
        CASE x = "*" -> "mul" [] x = "&" -> "and" [] x = "|" -> "or" [] x = "^" -> "xor"
          [] x \in {"==", "!="} -> "eq"
          [] x \in {"u<", "u>", "u>=", "u<="} -> "ult"
          [] x \in {"s<", "s>", "s>=", "s<="} -> "slt"
          [] x = "u//" -> "udiv" [] x = "s//" -> "sdivfloor"
          [] x = "u%" -> "umod" [] x = "s%" -> "smodfloor"
          [] x = "<<" -> "shl" [] x = "u>>" -> "ushr" [] OTHER -> "sshr"]

\* The operands of the closing adc with the carry-in 0.
sub_adc_no_carry(e, ucells, cell) ==
    <<VArg(cell.inputs[1]), UArg(ucell_output(e, ucells[1])), SArg("0")>>

\* The operands of the closing mux with the quotient before the zero.
div_mux_quotient_first(e, ucells, cell) ==
    <<UArg(ucell_output(e, ucells[1])), UArg(ucell_output(e, ucells[2])), UArg(uzero(cell.width))>>

\* Every greater-than and greater-or-equal operator among the swapped ones.
SwappedGreater == {"u>", "s>", "u>=", "s>=", "u<=", "s<="}

\* The operators whose two operands the comparison primitive takes in the
\* order (inputs[1], inputs[0]) (lines 376 and 408).
SwappedOperators == {"u>", "s>", "u<=", "s<="}

\* The operands of a two-input comparison, in the order they are printed.
cmp_operands(cell) ==
    IF cell.operator \in SwappedOperators
    THEN <<VArg(cell.inputs[2]), VArg(cell.inputs[1])>>
    ELSE <<VArg(cell.inputs[1]), VArg(cell.inputs[2])>>

\* The operands of the mux that closes a division (line 390).
div_mux_operands(e, ucells, cell) ==
    <<UArg(ucell_output(e, ucells[1])), UArg(uzero(cell.width)), UArg(ucell_output(e, ucells[2]))>>

\* The operands of the adc that closes a two-input subtraction (line 362).
sub_adc_operands(e, ucells, cell) ==
    <<VArg(cell.inputs[1]), UArg(ucell_output(e, ucells[1])), SArg("1")>>

\* The operator cells of the emission pass (lines 335-417).
emit_operator(e, cell_index, cell, meta) ==
    LET ucells == e.cell_map[cell_index]
        op     == cell.operator
        arity  == Len(cell.inputs)
    IN  CASE op = "~" /\ arity = 1 ->
                emit_ucell(e, ucells[1], "not", <<VArg(cell.inputs[1])>>, TRUE, meta)
          [] op = "-" /\ arity = 1 ->
                emit_ucell(emit_ucell(e, ucells[1], "not", <<VArg(cell.inputs[1])>>, TRUE, meta),
                           ucells[2], "adc",
                           <<UArg(ucell_output(e, ucells[1])), UArg(uzero(cell.width)), SArg("1")>>,
                           TRUE, meta)
          [] op \in {"b", "r|"} /\ arity = 1 ->
                emit_ucell(emit_ucell(e, ucells[1], "eq",
                                <<VArg(cell.inputs[1]), UArg(uzero(Len(cell.inputs[1])))>>,
                                TRUE, meta),
                           ucells[2], "not", <<UArg(ucell_output(e, ucells[1]))>>, TRUE, meta)
          [] op = "r&" /\ arity = 1 ->
                emit_ucell(e, ucells[1], "eq",
                           <<VArg(cell.inputs[1]), UArg(uones(Len(cell.inputs[1])))>>, TRUE, meta)
          [] op = "r^" /\ arity = 1 ->
                emit_xor_chain(e, ucells, cell.inputs[1], 1, uzero(1), meta)
          [] op = "+" /\ arity = 2 ->
                emit_ucell(e, ucells[1], "adc",
                           <<VArg(cell.inputs[1]), VArg(cell.inputs[2]), SArg("0")>>, TRUE, meta)
          [] op = "-" /\ arity = 2 ->
                emit_ucell(emit_ucell(e, ucells[1], "not", <<VArg(cell.inputs[2])>>, TRUE, meta),
                           ucells[2], "adc", sub_adc_operands(e, ucells, cell), TRUE, meta)
          [] op \in {"*", "&", "^", "|", "==", "u<", "u>", "s<", "s>"} /\ arity = 2 ->
                emit_ucell(e, ucells[1], Opcode[op], cmp_operands(cell), TRUE, meta)
          [] op \in {"u//", "s//", "u%", "s%"} /\ arity = 2 ->
                emit_ucell(
                    emit_ucell(
                        emit_ucell(e, ucells[1], "eq",
                                   <<UArg(uzero(cell.width)), VArg(cell.inputs[2])>>, TRUE, meta),
                        ucells[2], Opcode[op], <<VArg(cell.inputs[1]), VArg(cell.inputs[2])>>,
                        TRUE, meta),
                    ucells[3], "mux", div_mux_operands(e, ucells, cell), TRUE, meta)
          [] op \in {"<<", "u>>", "s>>"} /\ arity = 2 ->
                emit_ucell(e, ucells[1], Opcode[op],
                           <<VArg(cell.inputs[1]), VArg(cell.inputs[2]), NArg(1)>>, TRUE, meta)
          [] op \in {"!=", "u<=", "u>=", "s<=", "s>="} /\ arity = 2 ->
                emit_ucell(emit_ucell(e, ucells[1], Opcode[op], cmp_operands(cell), TRUE, meta),
                           ucells[2], "not", <<UArg(ucell_output(e, ucells[1]))>>, TRUE, meta)
          [] op = "m" /\ arity = 3 ->
                emit_ucell(e, ucells[1], "mux",
                           <<VArg(cell.inputs[1]), VArg(cell.inputs[2]), VArg(cell.inputs[3])>>,
                           TRUE, meta)
          [] OTHER -> Raise(e, "AssertionError")

\* self.uvalue_str(self.value(v)) for each v of vals, in order: the outcome
\* of the lookups and the texts.
value_strs(e, vals) == print_args(e, [i \in 1..Len(vals) |-> VArg(vals[i])])

RECURSIVE ReplaceDash(_)
\* pattern.replace('-', 'X')
ReplaceDash(pattern) ==
    IF pattern = <<>> THEN <<>>
    ELSE <<IF Head(pattern) = "-" THEN "X" ELSE Head(pattern)>> \o ReplaceDash(Tail(pattern))

\* One line of the block of a match (lines 433-437).
pattern_line(alternates) ==
    Line("sub", "pattern", None, None, alternates,
         IF Len(alternates) = 1 THEN "  " \o alternates[1]
         ELSE "  (" \o JoinWords(alternates) \o ")")

RECURSIVE emit_patterns(_, _, _)
\* The loop of the Match case over cell.patterns, from number k on.
emit_patterns(e, patterns, k) ==
    IF k > Len(patterns) THEN e
    ELSE emit_patterns(
            AppendLine(e, pattern_line([i \in 1..Len(patterns[k]) |->
                                            Join(ReplaceDash(patterns[k][i]))])),
            patterns, k + 1)

\* The closing line of a block.
close_block(e) == AppendLine(e, Line("sub", "}", None, None, <<>>, "}"))

\* Lines 431-438, en being the outcome of the lookup of line 430.
emit_match_en(en, ucell, cell, meta) ==
    close_block(emit_patterns(
        emit_ucell(en.e, ucell, "match",
                   <<SArg("en=" \o en.result[1].text), VArg(cell.value),
                     SArg("!" \o IntStr(meta)), SArg("{")>>, TRUE, None),
        cell.patterns, 1))

\* The Match case of the emission pass (lines 428-438).
emit_match(e, cell_index, cell, meta) ==
    emit_match_en(value_strs(e, <<(<<cell.en>>)>>), e.cell_map[cell_index][1], cell, meta)

\* Lines 447-448, en being the outcome of the lookup of line 446.
emit_assign(en, ucell, assignment, prev, meta) ==
    emit_ucell(en.e, ucell, "assign",
               <<SArg("en=" \o en.result[1].text), UArg(prev), VArg(assignment.value),
                 SArg("at=#" \o IntStr(assignment.start))>>, TRUE, meta)

RECURSIVE emit_assignments(_, _, _, _, _, _)
\* The loop of the AssignmentList case (lines 445-449), from number k on.
emit_assignments(e, assignments, ucells, k, prev, meta) ==
    IF k > Len(assignments) \/ k > Len(ucells) \/ e.raised # NoException THEN e
    ELSE emit_assignments(
            emit_assign(value_strs(e, <<(<<assignments[k].cond>>)>>), ucells[k],
                        assignments[k], prev, meta),
            assignments, ucells, k + 1, ucell_output(e, ucells[k]), meta)

\* Lines 444-449, prev being the outcome of the lookup of line 444.
emit_assignments_from(prev, cell, ucells, meta) ==
    emit_assignments(prev.e, cell.assignments, ucells, 1, prev.result, meta)

\* The AssignmentList case of the emission pass (lines 439-449).
emit_assignment_list(e, cell_index, cell, meta) ==
    IF Len(cell.assignments) = 0
    THEN emit_ucell(e, e.cell_map[cell_index][1], "buf", <<VArg(cell.default)>>, TRUE, meta)
    ELSE emit_assignments_from(value(e, cell.default), cell, e.cell_map[cell_index], meta)

\* One step of the loop over cell.attributes, r being the outcome so far.
append_attr(r, attr) == [e |-> attr.e, result |-> Append(r.result, attr.result)]

RECURSIVE emit_attrs(_, _, _)
\* for name, value in cell.attributes.items():
\*     meta_parts.append(self.emit_attr(name, value))
\* from attribute number k on, r holding the run and meta_parts so far.
emit_attrs(r, attributes, k) ==
    IF k > Len(attributes) \/ r.e.raised # NoException THEN r
    ELSE emit_attrs(append_attr(r, emit_attr(r.e, attributes[k][1], attributes[k][2])),
                    attributes, k + 1)

\* meta = self.emit_meta_set(*meta_parts), unless an exception is propagating.
merge_parts(r) ==
    IF r.e.raised # NoException THEN [e |-> r.e, result |-> None]
    ELSE emit_meta_set(r.e, r.result)

\* meta_parts extended by the attributes, merged again (lines 452-454,
\* 467-469, 515-517).
meta_with_attrs(e, meta_parts, attributes) ==
    merge_parts(emit_attrs([e |-> e, result |-> meta_parts], attributes, 1))

\* Lines 459-464, r being the outcome of the lookups of the clock and, when
\* there is an asynchronous reset, of the reset.
emit_dff(r, ucell, cell, meta) ==
    emit_ucell(r.e, ucell, "dff",
        <<VArg(cell.data),
          SArg((IF cell.clk_edge = "pos" THEN "clk=" ELSE "clk=!") \o r.result[1].text)>>
        \o (IF cell.arst = NetConst(0) THEN <<>> ELSE <<SArg("arst=" \o r.result[2].text)>>)
        \o <<SArg("init=" \o BinStr(cell.init, Len(cell.data)))>>,
        TRUE, meta)

\* Lines 455-464, m being the outcome of the merge of line 454.
emit_flipflop_meta(m, ucell, cell) ==
    emit_dff(value_strs(m.e, IF cell.arst = NetConst(0) THEN <<(<<cell.clk>>)>>
                             ELSE <<(<<cell.clk>>), (<<cell.arst>>)>>),
             ucell, cell, m.result)

\* The FlipFlop case of the emission pass (lines 450-464).
emit_flipflop(e, cell_index, cell, meta_parts) ==
    emit_flipflop_meta(meta_with_attrs(e, meta_parts, cell.attributes),
                       e.cell_map[cell_index][1], cell)

RECURSIVE emit_memory_init(_, _, _)
\* The loop over cell.init (lines 471-472), from row number k on.
emit_memory_init(e, cell, k) ==
    IF k > Len(cell.init) THEN e
    ELSE emit_memory_init(
            AppendLine(e, Line("sub", "init", None, None, cell.init[k],
                               "  init " \o BinStr(cell.init[k], cell.width))),
            cell, k + 1)

\* The ports of a memory that are write ports, in their order (lines 473-477).
WritePorts(e, ports) ==
    SelectSeq(ports, LAMBDA p : e.netlist.cells[p + 1].kind = "SyncWritePort")

\* relation with the comparison of the clocks made before the test of
\* transparent_for.
relation_clock_first(port, write_port_index, write_port) ==
    IF write_port.clk = port.clk /\ write_port.clk_edge = port.clk_edge THEN "rdfirst"
    ELSE IF write_port_index \in port.transparent_for THEN "trans"
    ELSE "undef"

\* The classification of one write port against a read port (lines 500-505).
relation(port, write_port_index, write_port) ==
    IF write_port_index \in port.transparent_for THEN "trans"
    ELSE IF write_port.clk = port.clk /\ write_port.clk_edge = port.clk_edge THEN "rdfirst"
    ELSE "undef"

\* The relations of a read port: one per write port index (lines 497-505).
relations(e, port, write_port_indices) ==
    [i \in 1..Len(write_port_indices) |->
        relation(port, write_port_indices[i], e.netlist.cells[write_port_indices[i] + 1])]

\* What a port line of a memory block was built from: the port, the fields
\* the line carries, and the relation list of a synchronous read line.
PortLine(port_index, fields, tags) == [port |-> port_index, fields |-> fields, relations |-> tags]

\* The clock of a port as printed: negated for the negative edge.
clk_str(port, text) == IF port.clk_edge = "neg" THEN "!" \o text ELSE text

\* The values a port line prints, in the order they are looked up.
port_values(port) ==
    CASE port.kind = "SyncWritePort" -> <<port.addr, port.data, port.en, <<port.clk>> >>
      [] port.kind = "AsyncReadPort" -> <<port.addr>>
      [] OTHER                       -> <<port.addr, <<port.clk>>, <<port.en>> >>

\* The line of one port (lines 488, 490, 507), r being the outcome of the
\* lookups of its values.
port_line(r, port_index, port, tags) ==
    CASE port.kind = "SyncWritePort" ->
            AppendLine(r.e, Line("sub", "write", None, None,
                PortLine(port_index, <<"addr", "data", "mask", "clk">>, <<>>),
                "  write addr=" \o r.result[1].text \o " data=" \o r.result[2].text
                    \o " mask=" \o r.result[3].text
                    \o " clk=" \o clk_str(port, r.result[4].text)))
      [] port.kind = "AsyncReadPort" ->
            AppendLine(r.e, Line("sub", "read", None, None,
                PortLine(port_index, <<"addr", "width">>, <<>>),
                "  read addr=" \o r.result[1].text \o " width=#" \o IntStr(port.width)))
      [] port.kind = "SyncReadPort" ->
            AppendLine(r.e, Line("sub", "read", None, None,
                PortLine(port_index, <<"addr", "width", "clk", "en", "relations">>, tags),
                "  read addr=" \o r.result[1].text \o " width=#" \o IntStr(port.width)
                    \o " clk=" \o clk_str(port, r.result[2].text)
                    \o " en=" \o r.result[3].text \o " [" \o JoinWords(tags) \o "]"))
      [] OTHER -> Raise(r.e, "AssertionError")

\* One iteration of the loop of line 478.
emit_memory_port(e, port_index, port, write_port_indices) ==
    port_line(value_strs(e, port_values(port)), port_index, port,
              IF port.kind = "SyncReadPort" THEN relations(e, port, write_port_indices)
              ELSE <<>>)

RECURSIVE emit_memory_ports(_, _, _, _)
\* The loop over the ports of a memory (lines 478-509), from number k on.
emit_memory_ports(e, ports, write_port_indices, k) ==
    IF k > Len(ports) \/ e.raised # NoException THEN e
    ELSE emit_memory_ports(
            emit_memory_port(e, ports[k], e.netlist.cells[ports[k] + 1], write_port_indices),
            ports, write_port_indices, k + 1)

\* Lines 470-510, m being the outcome of the merge of line 469.
emit_memory_meta(m, ucell, cell, ports, write_port_indices) ==
    close_block(emit_memory_ports(
        emit_memory_init(
            emit_ucell(m.e, ucell, "memory",
                <<SArg("depth=#" \o IntStr(cell.depth)), SArg("width=#" \o IntStr(cell.width)),
                  SArg("!" \o IntStr(m.result)), SArg("{")>>, TRUE, None),
            cell, 1),
        ports, write_port_indices, 1))

\* The Memory case of the emission pass (lines 465-510).
emit_memory(e, cell_index, cell, meta_parts) ==
    emit_memory_meta(meta_with_attrs(e, meta_parts, cell.attributes),
                     e.cell_map[cell_index][1], cell, e.memory_ports[cell_index],
                     WritePorts(e, e.memory_ports[cell_index]))

\* Line 520, p being the outcome of param_value.
param_line(p, parameter) ==
    AppendLine(p.e, Line("sub", "param", None, None, parameter,
        "  param " \o Join(escape_string(parameter[1])) \o " = " \o p.result))

RECURSIVE emit_params(_, _, _)
\* The loop over cell.parameters (lines 519-520), from entry number k on.
emit_params(e, parameters, k) ==
    IF k > Len(parameters) \/ e.raised # NoException THEN e
    ELSE emit_params(param_line(param_value(e, parameters[k][2]), parameters[k]),
                     parameters, k + 1)

\* Line 522, r being the outcome of the lookup.
instance_input_line(r, name) ==
    AppendLine(r.e, Line("sub", "input", None, None, r.result,
        "  input " \o Join(escape_string(name)) \o "=" \o r.result[1].text))

RECURSIVE emit_instance_inputs(_, _, _)
\* The loop over cell.ports_i (lines 521-522), from entry number k on.
emit_instance_inputs(e, ports_i, k) ==
    IF k > Len(ports_i) \/ e.raised # NoException THEN e
    ELSE emit_instance_inputs(
            instance_input_line(value_strs(e, <<ports_i[k][2]>>), ports_i[k][1]),
            ports_i, k + 1)

\* Line 524.
instance_output_line(ucell, name, start, width) ==
    Line("sub", "output", ucell + start, width, name,
         "  %" \o IntStr(ucell + start) \o ":" \o IntStr(width) \o " = output "
            \o Join(escape_string(name)))

RECURSIVE emit_instance_outputs(_, _, _, _)
\* The loop over cell.ports_o (lines 523-524), from entry number k on.
emit_instance_outputs(e, ports_o, ucell, k) ==
    IF k > Len(ports_o) THEN e
    ELSE emit_instance_outputs(
            AppendLine(e, instance_output_line(ucell, ports_o[k][1], ports_o[k][2], ports_o[k][3])),
            ports_o, ucell, k + 1)

RECURSIVE emit_instance_ios(_, _, _)
\* The loop over cell.ports_io (lines 525-526), from entry number k on.
emit_instance_ios(e, ports_io, k) ==
    IF k > Len(ports_io) THEN e
    ELSE emit_instance_ios(
            AppendLine(e, Line("sub", "io", None, None, ports_io[k][2],
                "  io " \o Join(escape_string(ports_io[k][1])) \o " = "
                    \o iovalue_str(e, ports_io[k][2]))),
            ports_io, k + 1)

\* Lines 518-527, m being the outcome of the merge of line 517.
emit_instance_meta(m, ucell, cell) ==
    close_block(
        emit_instance_ios(
            emit_instance_outputs(
                emit_instance_inputs(
                    emit_params(
                        emit_ucell(m.e, ucell, Join(escape_string(cell.type)),
                                   <<SArg("!" \o IntStr(m.result)), SArg("{")>>, FALSE, None),
                        cell.parameters, 1),
                    cell.ports_i, 1),
                cell.ports_o, ucell, 1),
            cell.ports_io, 1))

\* The Instance case of the emission pass (lines 513-527); KeyError when
\* cell_map holds nothing for the cell.
emit_instance(e, cell_index, cell, meta_parts) ==
    IF cell_index \notin DOMAIN e.cell_map THEN Raise(e, "KeyError")
    ELSE emit_instance_meta(meta_with_attrs(e, meta_parts, cell.attributes),
                            e.cell_map[cell_index][1], cell)

\* Lines 421-425: the value extended to the width of the part, by its last
\* bit when signed, else by zeros.
extend(uvalue, width, value_signed) ==
    IF Len(uvalue) >= width THEN uvalue
    ELSE IF value_signed
    THEN uvalue \o [i \in 1..(width - Len(uvalue)) |-> uvalue[Len(uvalue)]]
    ELSE uvalue \o uzero(width - Len(uvalue))

\* Lines 421-427, r being the outcome of the lookup of line 420; IndexError
\* for value[-1] of an empty value.
emit_part_value(r, ucell, cell, meta) ==
    IF r.e.raised = NoException /\ r.result = <<>> /\ cell.width > 0 /\ cell.value_signed
    THEN Raise(r.e, "IndexError")
    ELSE emit_ucell(r.e, ucell, IF cell.value_signed THEN "sshr" ELSE "ushr",
                    <<UArg(extend(r.result, cell.width, cell.value_signed)),
                      NArg(cell.offset), NArg(cell.stride)>>, TRUE, meta)

\* The Part case of the emission pass (lines 418-427).
emit_part(e, cell_index, cell, meta) ==
    emit_part_value(value(e, cell.value), e.cell_map[cell_index][1], cell, meta)

\* Line 532, r being the outcome of the lookups of lines 530-531.
emit_iobuf(r, ucell, cell, meta) ==
    emit_ucell(r.e, ucell, "iobuf",
               <<IOArg(cell.port), SArg("o=" \o r.result[1].text),
                 SArg("en=" \o r.result[2].text)>>, TRUE, meta)

\* The IOBuffer case of the emission pass (lines 528-532).
emit_iobuffer(e, cell_index, cell, meta) ==
    emit_iobuf(value_strs(e, <<cell.o, <<cell.oe>> >>), e.cell_map[cell_index][1], cell, meta)

\* Lines 333-534, m being the outcome of lines 329-332.
emit_cell_meta(m, cell_index, cell) ==
    CASE cell.kind = "Top" -> m.e
      [] cell.kind = "Operator" -> emit_operator(m.e, cell_index, cell, m.result)
      [] cell.kind = "Part" -> emit_part(m.e, cell_index, cell, m.result)
      [] cell.kind = "Match" -> emit_match(m.e, cell_index, cell, m.result)
      [] cell.kind = "AssignmentList" -> emit_assignment_list(m.e, cell_index, cell, m.result)
      [] cell.kind = "FlipFlop" -> emit_flipflop(m.e, cell_index, cell, m.parts)
      [] cell.kind = "Memory" -> emit_memory(m.e, cell_index, cell, m.parts)
      [] cell.kind \in {"SyncWritePort", "SyncReadPort", "AsyncReadPort"} -> m.e
      [] cell.kind = "Instance" -> emit_instance(m.e, cell_index, cell, m.parts)
      [] cell.kind = "IOBuffer" -> emit_iobuffer(m.e, cell_index, cell, m.result)
      [] OTHER -> Raise(m.e, "AssertionError")

\* One iteration of the loop "emit cells" (lines 328-534).
emit_cell(e, cell_index) ==
    emit_cell_meta(meta_with_src(e, e.module_meta[e.netlist.cells[cell_index + 1].module_idx],
                                 e.netlist.cells[cell_index + 1].src_loc),
                   cell_index, e.netlist.cells[cell_index + 1])

\* "\n".join(self.lines) + "\n" (line 551); the line break is written <nl>.
RECURSIVE JoinLines(_)
JoinLines(lines) ==
    IF lines = <<>> THEN ""
    ELSE IF Len(lines) = 1 THEN lines[1].text
    ELSE lines[1].text \o "<nl>" \o JoinLines(Tail(lines))

\* ------------------------------------------------------ the run of emit()

\* Where the run stands after a step: in the handler of the exception, if
\* one was raised, else at the next statement.
After(e, next) == IF e.raised # NoException THEN "raised" ELSE next

\* The state of a run of emit() on a netlist, before its first statement.
InitRun(netlist) ==
    /\ em = Emitter(netlist)
    /\ calls = <<>>
    /\ arg = 0
    /\ out = ""
    /\ pc = "ios"

\* Lines 191-192.
EmitIOs ==
    /\ pc = "ios"
    /\ em' = emit_ios(em, 1)
    /\ pc' = After(em', "scopes")
    /\ UNCHANGED <<calls, arg, out>>

\* Lines 195-202.
EmitScopes ==
    /\ pc = "scopes"
    /\ em' = emit_scopes(em, em.netlist.modules, 0)
    /\ pc' = After(em', "inputs")
    /\ UNCHANGED <<calls, arg, out>>

\* Lines 205-209.
EmitInputs ==
    /\ pc = "inputs"
    /\ em' = emit_inputs(em, 1)
    /\ pc' = After(em', "collect")
    /\ UNCHANGED <<calls, arg, out>>

\* Lines 212-214.
CollectMemoryPorts ==
    /\ pc = "collect"
    /\ em' = collect_memory_ports(em, 0)
    /\ pc' = After(em', "reserve")
    /\ arg' = 0
    /\ UNCHANGED <<calls, out>>

\* The loop "reserve cell indices" left after the Top cell.
reserve_end_after_top(e) == IF e.netlist.cells = <<>> THEN 0 ELSE 1

\* The cell index at which the loop "reserve cell indices" ends.
reserve_end(e) == Len(e.netlist.cells)

\* One iteration of the loop of line 217; arg is cell_index.
ReserveCell ==
    /\ pc = "reserve"
    /\ arg < reserve_end(em)
    /\ em' = reserve_cell(em, arg)
    /\ arg' = arg + 1
    /\ pc' = After(em', "reserve")
    /\ UNCHANGED <<calls, out>>

\* The loop of line 217 is over; the loop of line 328 starts.
StartEmit ==
    /\ pc = "reserve"
    /\ arg >= reserve_end(em)
    /\ arg' = 0
    /\ pc' = "emit"
    /\ UNCHANGED <<em, calls, out>>

\* The cells taken from the last one to the first.
emit_index_reversed(e, i) == Len(e.netlist.cells) - 1 - i

\* The cell index of iteration number i of the loop of line 328, which goes
\* over enumerate(self.netlist.cells).
emit_index(e, i) == i

\* One iteration of the loop of line 328; arg counts the iterations.
EmitCell ==
    /\ pc = "emit"
    /\ arg < Len(em.netlist.cells)
    /\ em' = emit_cell(em, emit_index(em, arg))
    /\ arg' = arg + 1
    /\ pc' = After(em', "emit")
    /\ UNCHANGED <<calls, out>>

\* Lines 536-538, once the loop of line 328 is over.
EmitOutputs ==
    /\ pc = "emit"
    /\ arg >= Len(em.netlist.cells)
    /\ em' = emit_outputs(em, 1)
    /\ pc' = After(em', "names")
    /\ UNCHANGED <<calls, arg, out>>

\* Lines 540-549.
EmitNames ==
    /\ pc = "names"
    /\ em' = emit_names(em, 0, 1)
    /\ pc' = After(em', "return")
    /\ UNCHANGED <<calls, arg, out>>

\* Line 551.
Return ==
    /\ pc = "return"
    /\ out' = JoinLines(em.lines) \o "<nl>"
    /\ pc' = "returned"
    /\ UNCHANGED <<em, calls, arg>>

NextRun ==
    \/ EmitIOs
    \/ EmitScopes
    \/ EmitInputs
    \/ CollectMemoryPorts
    \/ ReserveCell
    \/ StartEmit
    \/ EmitCell
    \/ EmitOutputs
    \/ EmitNames
    \/ Return

\* ------------------------------------------ operator lowering (SpecLower)

\* _nir.Top and _nir.Operator, with the fields emit() reads.
Top == [kind |-> "Top", module_idx |-> 0, src_loc |-> NoSrcLoc]

Operator(operator, inputs, width) ==
    [kind |-> "Operator", module_idx |-> 0, src_loc |-> NoSrcLoc,
     operator |-> operator, inputs |-> inputs, width |-> width]

\* A signal name of a module: netlist.signals[signal] is value.
SignalName(name, val, src_loc) == [name |-> name, value |-> val, src_loc |-> src_loc]

\* The operators emit() lowers, each with its number of inputs.
Operators ==
    {<<op, 1>> : op \in {"~", "-", "b", "r|", "r&", "r^"}}
    \cup {<<op, 2>> : op \in {"+", "-", "*", "&", "^", "|", "==", "!=", "u<", "u>", "s<", "s>",
                              "u<=", "u>=", "s<=", "s>=", "u//", "s//", "u%", "s%",
                              "<<", "u>>", "s>>"}}
    \cup {<<"m", 3>>}

\* The width of the result of an operator over operands of width w.
ResultWidth(op, w) ==
    IF op \in {"b", "r|", "r&", "r^", "==", "!=", "u<", "u>", "s<", "s>", "u<=", "u>=", "s<=", "s>="}
    THEN 1 ELSE w

\* A netlist of one operator cell over the inputs of the top module: a and
\* b of width w and the one-bit s; its result is the output o.
LowerNetlist(op, arity, w) ==
    LET a == CellNets(0, 0, w)
        b == CellNets(0, w, w)
        sel == CellNets(0, 2 * w, 1)
        o == CellNets(1, 0, ResultWidth(op, w))
    IN  Netlist(<<Top,
                  Operator(op, CASE arity = 1 -> <<a>> [] arity = 2 -> <<a, b>> [] OTHER -> <<sel, a, b>>,
                           ResultWidth(op, w))>>,
                <<>>,
                <<Module(<< <<"t", "o", "p">> >>, None, NoSrcLoc,
                         <<SignalName(<<"o">>, o, NoSrcLoc)>>)>>,
                << <<(<<"a">>), 0, w>>, <<(<<"b">>), w, w>>, <<(<<"s">>), 2 * w, 1>> >>,
                << <<(<<"o">>), o>> >>)

InitLower == \E p \in Operators : \E w \in 0..MaxWidth : InitRun(LowerNetlist(p[1], p[2], w))

SpecLower == InitLower /\ [][NextRun]_vars

RECURSIVE Pow2(_)
Pow2(n) == IF n <= 0 THEN 1 ELSE 2 * Pow2(n - 1)

\* The value of one bit and of a bit vector (least significant bit first),
\* env giving the value held by each slot.
BitOf(env, unet) ==
    IF unet.cell = None THEN unet.bit ELSE (env[unet.cell] \div Pow2(unet.bit)) % 2

RECURSIVE ValueOf(_, _)
ValueOf(env, uvalue) ==
    IF uvalue = <<>> THEN 0 ELSE BitOf(env, Head(uvalue)) + 2 * ValueOf(env, Tail(uvalue))

\* The two's-complement reading of a w-bit value, and back.
Signed(x, w) == IF w > 0 /\ x >= Pow2(w - 1) THEN x - Pow2(w) ELSE x

Wrap(x, w) == ((x % Pow2(w)) + Pow2(w)) % Pow2(w)

\* Division rounding to minus infinity, for a divisor other than 0.
FloorDiv(a, b) == IF b > 0 THEN a \div b ELSE (0 - a) \div (0 - b)

FloorMod(a, b) == a - b * FloorDiv(a, b)

Bool(p) == IF p THEN 1 ELSE 0

\* The value of an operand of an instruction line.
OperandValue(env, operand) ==
    CASE operand.t \in {"value", "uvalue"} -> ValueOf(env, operand.uvalue)
      [] operand.t = "str" -> Bool(operand.text = "1")
      [] OTHER -> operand.n

\* The value an instruction of the target language leaves in its slot of
\* width rw, x being the values of its operands and xw their widths. The
\* result of a division by zero is dz; MuxOrder tells which of the operands
\* after the condition a mux selects when the condition is 1.
Primitive(op, x, xw, rw, dz, MuxOrder) ==
    CASE op = "not" -> Pow2(rw) - 1 - x[1]
      [] op = "adc" -> (x[1] + x[2] + x[3]) % Pow2(rw)
      [] op = "eq"  -> Bool(x[1] = x[2])
      [] op = "ult" -> Bool(x[1] < x[2])
      [] op = "slt" -> Bool(Signed(x[1], xw[1]) < Signed(x[2], xw[2]))
      [] op = "udiv" -> IF x[2] = 0 THEN dz ELSE x[1] \div x[2]
      [] op = "umod" -> IF x[2] = 0 THEN dz ELSE x[1] % x[2]
      [] op = "sdivfloor" ->
            IF x[2] = 0 THEN dz
            ELSE Wrap(FloorDiv(Signed(x[1], xw[1]), Signed(x[2], xw[2])), rw)
      [] op = "smodfloor" ->
            IF x[2] = 0 THEN dz
            ELSE Wrap(FloorMod(Signed(x[1], xw[1]), Signed(x[2], xw[2])), rw)
      [] op = "mux" ->
            IF MuxOrder = "cond, if_true, if_false"
            THEN (IF x[1] = 1 THEN x[2] ELSE x[3])
            ELSE (IF x[1] = 1 THEN x[3] ELSE x[2])
      [] OTHER -> 0

\* The instruction lines of the output: the lines that define a slot by an
\* operation on values.
IsInstruction(line) == line.kind = "ucell" /\ line.op \notin {"input", "output", "name"}

Instructions == SelectSeq(em.lines, IsInstruction)

\* The slot of the module input called name ("\"a\"" for a).
InputSlot(name) ==
    em.lines[CHOOSE i \in 1..Len(em.lines) :
                em.lines[i].kind = "ucell" /\ em.lines[i].op = "input"
                /\ em.lines[i].data[1].text = name].id

RECURSIVE Evaluate(_, _, _, _, _)
\* The values of the slots after the instructions from number k on, env
\* holding the values of the slots defined before.
Evaluate(lines, k, env, dz, MuxOrder) ==
    IF k > Len(lines) THEN env
    ELSE Evaluate(lines, k + 1,
            Put(env, lines[k].id,
                Primitive(lines[k].op,
                          [i \in 1..Len(lines[k].data) |-> OperandValue(env, lines[k].data[i])],
                          [i \in 1..Len(lines[k].data) |-> Len(lines[k].data[i].uvalue)],
                          lines[k].width, dz, MuxOrder)),
            dz, MuxOrder)

\* The value of the module output o when the inputs a and b hold a and b.
OutputValue(a, b, dz, MuxOrder) ==
    LET env0 == (InputSlot("\"a\"") :> a) @@ (InputSlot("\"b\"") :> b) @@ (InputSlot("\"s\"") :> 0)
        o    == CHOOSE i \in 1..Len(em.lines) : em.lines[i].op = "output"
    IN  ValueOf(Evaluate(Instructions, 1, env0, dz, MuxOrder), em.lines[o].data[2].uvalue)

\* The run has returned the text of a netlist whose cell is the operator op
\* with arity inputs.
Lowered(op, arity) ==
    /\ pc = "returned"
    /\ Len(em.netlist.cells) = 2
    /\ em.netlist.cells[2].kind = "Operator"
    /\ em.netlist.cells[2].operator = op
    /\ Len(em.netlist.cells[2].inputs) = arity

LoweredWidth == em.netlist.cells[2].width

\* The operands a and b as an instruction refers to them.
OperandA == ucell_output(em, InputSlot("\"a\""))

OperandB == ucell_output(em, InputSlot("\"b\""))

\* The width of the inputs a and b.
InputWidth == em.ucell_width[InputSlot("\"a\"")]

InputValues == 0..(Pow2(InputWidth) - 1)

\* The operand at place i of instruction k, as a bit vector.
Operand(k, i) == Instructions[k].data[i].uvalue

SlotOutput(k) == ucell_output(em, Instructions[k].id)

\* C3: two-input subtraction is lowered to not over b into a w-bit slot,
\* then adc(a, not_b, carry-in 1) into a (w+1)-bit slot, the cell output
\* being the low w bits of the adc slot, and this evaluates to
\* (a - b) mod 2^w for all w-bit a and b.
C3_SubtractLowering ==
    Lowered("-", 2) =>
        /\ Len(Instructions) = 2
        /\ Instructions[1].op = "not"
        /\ Instructions[1].width = InputWidth
        /\ Operand(1, 1) = OperandB
        /\ Instructions[2].op = "adc"
        /\ Instructions[2].width = InputWidth + 1
        /\ Operand(2, 1) = OperandA
        /\ Operand(2, 2) = SlotOutput(1)
        /\ Instructions[2].data[3].text = "1"
        /\ value(em, CellNets(1, 0, LoweredWidth)).result = Take(SlotOutput(2), InputWidth)
        /\ \A a, b \in InputValues :
              OutputValue(a, b, 0, "cond, if_true, if_false") = Wrap(a - b, InputWidth)

\* A subtraction of the widest operands was lowered and returned.
C3_Witness == Lowered("-", 2) /\ InputWidth = MaxWidth /\ Len(Instructions) = 2

\* The statement of C4 with the operands of mux read in the order MuxOrder:
\* u//, s//, u% and s% are lowered to eq(0, b); op(a, b);
\* mux(eq_result, 0, op_result), which evaluates to 0 when b = 0 and to
\* op(a, b) when b # 0, whatever the division instruction leaves for b = 0.
DivisionLowering(MuxOrder) ==
    \A op \in {"u//", "s//", "u%", "s%"} :
        Lowered(op, 2) =>
            /\ Len(Instructions) = 3
            /\ Instructions[1].op = "eq"
            /\ Operand(1, 1) = uzero(InputWidth)
            /\ Operand(1, 2) = OperandB
            /\ Instructions[2].op = Opcode[op]
            /\ Operand(2, 1) = OperandA
            /\ Operand(2, 2) = OperandB
            /\ Instructions[3].op = "mux"
            /\ Operand(3, 1) = SlotOutput(1)
            /\ Operand(3, 2) = uzero(InputWidth)
            /\ Operand(3, 3) = SlotOutput(2)
            /\ \A a, b, dz \in InputValues :
                  OutputValue(a, b, dz, MuxOrder) =
                     IF b = 0 THEN 0
                     ELSE Primitive(Opcode[op], <<a, b>>, <<InputWidth, InputWidth>>,
                                    InputWidth, dz, MuxOrder)

\* C4, as stated: the division sequence yields 0 for b = 0 and op(a, b)
\* otherwise when mux is read as mux(cond, if_false, if_true).
C4_DivisionFalseFirst == DivisionLowering("cond, if_false, if_true")

\* C4, amended: the division sequence yields 0 for b = 0 and op(a, b)
\* otherwise when mux is read as mux(cond, if_true, if_false), the operand
\* after the condition being the one selected when the condition is 1.
C4_DivisionTrueFirst == DivisionLowering("cond, if_true, if_false")

\* A signed floor division of operands of two bits or more was lowered.
C4_Witness == Lowered("s//", 2) /\ InputWidth >= 2 /\ Len(Instructions) = 3

\* The truth value of the direct comparison a op b.
Compare(op, a, b, w) ==
    CASE op = "u>"  -> Bool(a > b)
      [] op = "u>=" -> Bool(a >= b)
      [] op = "s>"  -> Bool(Signed(a, w) > Signed(b, w))
      [] OTHER      -> Bool(Signed(a, w) >= Signed(b, w))

\* The lowering of u>, s>, u>=, s>=: ult for the unsigned and slt for the
\* signed ones, over (b, a) for the operators of SwappedSet and over (a, b)
\* for the others, followed by not for the >= forms; its value is the truth
\* value of the direct comparison.
GreaterLowering(SwappedSet) ==
    \A op \in {"u>", "s>", "u>=", "s>="} :
        Lowered(op, 2) =>
            /\ Len(Instructions) = (IF op \in {"u>=", "s>="} THEN 2 ELSE 1)
            /\ Instructions[1].op = (IF op \in {"u>", "u>="} THEN "ult" ELSE "slt")
            /\ Operand(1, 1) = (IF op \in SwappedSet THEN OperandB ELSE OperandA)
            /\ Operand(1, 2) = (IF op \in SwappedSet THEN OperandA ELSE OperandB)
            /\ op \in {"u>=", "s>="} =>
                  /\ Instructions[2].op = "not"
                  /\ Operand(2, 1) = SlotOutput(1)
            /\ \A a, b \in InputValues :
                  OutputValue(a, b, 0, "cond, if_true, if_false") = Compare(op, a, b, InputWidth)

\* C5, as stated: each of u>, s>, u>=, s>= is lowered to ult/slt over the
\* swapped operands (b, a), followed by not for the >= forms, and its value
\* is that of the direct comparison.
C5_GreaterAllSwapped == GreaterLowering({"u>", "s>", "u>=", "s>="})

\* C5, amended: u> and s> are lowered to ult/slt over the swapped operands
\* (b, a); u>= and s>= are lowered to ult/slt over the operands in their
\* order (a, b), followed by not; the value of each is that of the direct
\* comparison.
C5_GreaterLowering == GreaterLowering({"u>", "s>"})

\* A signed >= of operands of two bits or more was lowered.
C5_Witness == Lowered("s>=", 2) /\ InputWidth >= 2 /\ Len(Instructions) = 2

\* ------------------------------------------------ memory blocks (SpecMemory)

\* _nir.Memory and its ports, with the fields emit() reads.
Memory(width, depth, init, attributes) ==
    [kind |-> "Memory", module_idx |-> 0, src_loc |-> NoSrcLoc,
     width |-> width, depth |-> depth, init |-> init, attributes |-> attributes]

SyncWritePort(memory, data, addr, en, clk, clk_edge) ==
    [kind |-> "SyncWritePort", module_idx |-> 0, src_loc |-> NoSrcLoc,
     memory |-> memory, data |-> data, addr |-> addr, en |-> en,
     clk |-> clk, clk_edge |-> clk_edge]

SyncReadPort(memory, width, addr, en, clk, clk_edge, transparent_for) ==
    [kind |-> "SyncReadPort", module_idx |-> 0, src_loc |-> NoSrcLoc,
     memory |-> memory, width |-> width, addr |-> addr, en |-> en,
     clk |-> clk, clk_edge |-> clk_edge, transparent_for |-> transparent_for]

AsyncReadPort(memory, width, addr) ==
    [kind |-> "AsyncReadPort", module_idx |-> 0, src_loc |-> NoSrcLoc,
     memory |-> memory, width |-> width, addr |-> addr]

\* The inputs of the top module of a memory netlist: address, data, enable
\* and two clocks, one bit each, at the bits 0 to 4 of cell 0.
MemoryInputs ==
    << <<(<<"a">>), 0, 1>>, <<(<<"d">>), 1, 1>>, <<(<<"e">>), 2, 1>>,
       <<(<<"c", "1">>), 3, 1>>, <<(<<"c", "2">>), 4, 1>> >>

\* The ports a memory netlist is built from, each <<kind, memory, bit of the
\* clock input, clock edge, transparency>>: memory 1 has write ports on
\* either clock and edge and read ports on the first clock, transparent for
\* the first write port of the memory or for none; memory 2 has plain ports.
PortOptions ==
    {<<"SyncWritePort", 1, c, edge, "none">> : c \in {3, 4}, edge \in {"pos", "neg"}}
    \cup {<<"SyncReadPort", 1, 3, edge, t>> : edge \in {"pos", "neg"}, t \in {"none", "first"}}
    \cup {<<"SyncWritePort", 2, 3, "pos", "none">>, <<"SyncReadPort", 2, 3, "pos", "none">>,
          <<"AsyncReadPort", 1, 3, "pos", "none">>}

\* The cell index of the port at place k of a memory netlist.
PortIndex(k) == 2 + k

\* transparent_for of the port at place k: the first write port of its
\* memory, when the option asks for it and there is one.
TransparentFor(ports, k) ==
    IF ports[k][5] = "first"
       /\ \E j \in 1..Len(ports) : ports[j][1] = "SyncWritePort" /\ ports[j][2] = ports[k][2]
    THEN {PortIndex(CHOOSE j \in 1..Len(ports) :
                /\ ports[j][1] = "SyncWritePort" /\ ports[j][2] = ports[k][2]
                /\ \A i \in 1..(j - 1) :
                      ~(ports[i][1] = "SyncWritePort" /\ ports[i][2] = ports[k][2]))}
    ELSE {}

PortCell(ports, k) ==
    CASE ports[k][1] = "SyncWritePort" ->
            SyncWritePort(ports[k][2], << <<0, 1>> >>, << <<0, 0>> >>, << <<0, 2>> >>,
                          <<0, ports[k][3]>>, ports[k][4])
      [] ports[k][1] = "SyncReadPort" ->
            SyncReadPort(ports[k][2], 1, << <<0, 0>> >>, <<0, 2>>,
                         <<0, ports[k][3]>>, ports[k][4], TransparentFor(ports, k))
      [] OTHER -> AsyncReadPort(ports[k][2], 1, << <<0, 0>> >>)

\* A netlist of two memories, cells 1 and 2, and the given ports after them.
MemoryNetlist(ports) ==
    Netlist(<<Top, Memory(1, 2, <<0, 1>>, <<>>), Memory(1, 2, <<>>, <<>>)>>
                \o [k \in 1..Len(ports) |-> PortCell(ports, k)],
            <<>>,
            <<Module(<< <<"t", "o", "p">> >>, None, NoSrcLoc, <<>>)>>,
            MemoryInputs,
            <<>>)

InitMemory == \E ports \in StringsUpTo(PortOptions, MaxPorts) : InitRun(MemoryNetlist(ports))

SpecMemory == InitMemory /\ [][NextRun]_vars

\* The cell indices of the write ports of a memory, in declaration order.
RECURSIVE WritePortsOf(_, _)
WritePortsOf(memory, index) ==
    IF index >= Len(em.netlist.cells) THEN <<>>
    ELSE (IF em.netlist.cells[index + 1].kind = "SyncWritePort"
             /\ em.netlist.cells[index + 1].memory = memory
          THEN <<index>> ELSE <<>>) \o WritePortsOf(memory, index + 1)

\* The tag of a write port on the line of a read port, as C10 states it.
Tag(read, write_index) ==
    IF write_index \in em.netlist.cells[read + 1].transparent_for THEN "trans"
    ELSE IF /\ em.netlist.cells[write_index + 1].clk = em.netlist.cells[read + 1].clk
            /\ em.netlist.cells[write_index + 1].clk_edge = em.netlist.cells[read + 1].clk_edge
    THEN "rdfirst"
    ELSE "undef"

\* The read lines of the output.
ReadLines == {i \in 1..Len(em.lines) : em.lines[i].kind = "sub" /\ em.lines[i].op = "read"}

\* The cell indices of the read ports of the netlist.
ReadPortCells(kind) ==
    {p \in 0..(Len(em.netlist.cells) - 1) : em.netlist.cells[p + 1].kind = kind}

\* C10: the relation list on the line of a synchronous read port has one
\* entry per write port of the same memory, in declaration order, the entry
\* for a write port being trans if the read port is transparent for it, else
\* rdfirst if both have the same clock net and edge, else undef; the line of
\* an asynchronous read port has no clock, enable or relation list; a
\* returned text has one line per read port.
C10_MemoryRelations ==
    /\ \A i \in ReadLines :
        LET port  == em.lines[i].data.port
            write == WritePortsOf(em.netlist.cells[port + 1].memory, 0)
        IN  IF em.netlist.cells[port + 1].kind = "SyncReadPort"
            THEN /\ em.lines[i].data.fields = <<"addr", "width", "clk", "en", "relations">>
                 /\ em.lines[i].data.relations = [k \in 1..Len(write) |-> Tag(port, write[k])]
            ELSE /\ em.netlist.cells[port + 1].kind = "AsyncReadPort"
                 /\ em.lines[i].data.fields = <<"addr", "width">>
                 /\ em.lines[i].data.relations = <<>>
    /\ pc = "returned" =>
        \A p \in ReadPortCells("SyncReadPort") \cup ReadPortCells("AsyncReadPort") :
            Cardinality({i \in ReadLines : em.lines[i].data.port = p}) = 1

\* A returned text holds the line of a read port that is transparent for one
\* write port of its memory and shares clock and edge with a second one.
C10_Witness ==
    /\ pc = "returned"
    /\ \E i \in ReadLines :
          /\ Len(em.lines[i].data.relations) = 2
          /\ em.lines[i].data.relations[1] = "trans"
          /\ em.lines[i].data.relations[2] = "rdfirst"

\* ------------------------------------------------- whole netlists (Spec)

\* The other cells of _nir, with the fields emit() reads.
Part(val, value_signed, offset, width, stride, src_loc) ==
    [kind |-> "Part", module_idx |-> 0, src_loc |-> src_loc, value |-> val,
     value_signed |-> value_signed, offset |-> offset, width |-> width, stride |-> stride]

Match(val, en, patterns) ==
    [kind |-> "Match", module_idx |-> 0, src_loc |-> NoSrcLoc,
     value |-> val, en |-> en, patterns |-> patterns]

Assignment(cond, start, val) == [cond |-> cond, start |-> start, value |-> val]

AssignmentList(default, assignments) ==
    [kind |-> "AssignmentList", module_idx |-> 0, src_loc |-> NoSrcLoc,
     default |-> default, assignments |-> assignments]

FlipFlop(data, init, clk, clk_edge, arst, attributes, src_loc) ==
    [kind |-> "FlipFlop", module_idx |-> 0, src_loc |-> src_loc, data |-> data, init |-> init,
     clk |-> clk, clk_edge |-> clk_edge, arst |-> arst, attributes |-> attributes]

Instance(type, parameters, attributes, ports_i, ports_o, ports_io) ==
    [kind |-> "Instance", module_idx |-> 0, src_loc |-> NoSrcLoc, type |-> type,
     parameters |-> parameters, attributes |-> attributes,
     ports_i |-> ports_i, ports_o |-> ports_o, ports_io |-> ports_io]

IOBuffer(port, o, oe) ==
    [kind |-> "IOBuffer", module_idx |-> 0, src_loc |-> NoSrcLoc,
     port |-> port, o |-> o, oe |-> oe]

IOPort(name, width) == [name |-> name, width |-> width]

\* What a netlist is built from: one of these per place, each a cell, the
\* memory being a memory cell with a write port and a read port after it.
Kinds == {"not", "div", "part", "match", "assign", "dff", "memory", "instance", "iobuf"}

\* The number of cells at a place.
Size(kind) == IF kind = "memory" THEN 3 ELSE 1

RECURSIVE Base(_, _)
\* The index of the first cell at place g (cell 0 is the Top cell).
Base(kinds, g) == IF g <= 1 THEN 1 ELSE Base(kinds, g - 1) + Size(kinds[g - 1])

\* Bit 0 of the output at place g: of the cell there, for a memory of its
\* read port; place 0 is the input of the top module.
OutputNet(kinds, g) ==
    IF g = 0 THEN <<0, 0>>
    ELSE IF kinds[g] = "memory" THEN <<Base(kinds, g) + 2, 0>>
    ELSE <<Base(kinds, g), 0>>

\* The cells at a place, base being the index of the first; x and y are the
\* nets their operands refer to.
CellsOf(kind, base, x, y) ==
    CASE kind = "not" -> <<Operator("~", << <<x>> >>, 1)>>
      [] kind = "div" -> <<Operator("u//", << <<x>>, <<y>> >>, 1)>>
      [] kind = "part" -> <<Part(<<x>>, FALSE, 0, 2, 1, <<(<<"f">>), 1>>)>>
      [] kind = "match" ->
            <<Match(<<x>>, y, << <<(<<"1">>)>>, <<(<<"0">>), (<<"-">>)>> >>)>>
      [] kind = "assign" -> <<AssignmentList(<<x>>, <<Assignment(y, 0, <<x>>)>>)>>
      [] kind = "dff" ->
            <<FlipFlop(<<x>>, 1, <<0, 1>>, "pos", y, << <<(<<"k">>), IntValue(1)>> >>,
                       <<(<<"f">>), 1>>)>>
      [] kind = "memory" ->
            <<Memory(1, 2, <<1, 0>>, <<>>),
              SyncWritePort(base, <<x>>, <<y>>, <<x>>, <<0, 1>>, "pos"),
              [SyncReadPort(base, 1, <<x>>, y, <<0, 1>>, "neg", {base + 1})
                  EXCEPT !.src_loc = <<(<<"g">>), 2>>]>>
      [] kind = "instance" ->
            <<Instance(<<"t">>, << <<(<<"p">>), IntValue(1)>> >>, <<>>,
                       << <<(<<"i">>), <<x, y>> >> >>, << <<(<<"o">>), 0, 1>> >>,
                       << <<(<<"q">>), << <<0, 0>> >> >> >>)>>
      [] OTHER -> <<IOBuffer(<< <<0, 0>> >>, <<x>>, y)>>

RECURSIVE AllCells(_, _, _, _)
\* The cells at the places from g on.
AllCells(kinds, g, x, y) ==
    IF g > Len(kinds) THEN <<>>
    ELSE CellsOf(kinds[g], Base(kinds, g), x, y) \o AllCells(kinds, g + 1, x, y)

\* The netlist of the given places whose operands refer to the outputs at the
\* places i and j: places before them refer forward, the places themselves
\* to their own output, the places after them backward.
WholeNetlist(kinds, i, j) ==
    Netlist(<<Top>> \o AllCells(kinds, 1, OutputNet(kinds, i), OutputNet(kinds, j)),
            <<IOPort(<<"q">>, 1)>>,
            <<Module(<< <<"t", "o", "p">> >>, None, NoSrcLoc,
                     <<SignalName(<<"x">>, <<OutputNet(kinds, i)>>, <<(<<"f">>), 1>>)>>)>>,
            << <<(<<"a">>), 0, 1>>, <<(<<"c">>), 1, 1>> >>,
            << <<(<<"o">>), <<OutputNet(kinds, i), OutputNet(kinds, j)>> >> >>)

Init ==
    \E kinds \in StringsUpTo(Kinds, MaxCells) :
        \E i, j \in 0..Len(kinds) : InitRun(WholeNetlist(kinds, i, j))

Spec == Init /\ [][NextRun]_vars

\* The nets of the values in a list of values.
RECURSIVE NetsOf(_)
NetsOf(vals) == IF vals = <<>> THEN {} ELSE Range(Head(vals)) \cup NetsOf(Tail(vals))

\* The nets the operands of the lines of a cell refer to.
OperandNets(cell) ==
    CASE cell.kind = "Operator" -> NetsOf(cell.inputs)
      [] cell.kind = "Part" -> Range(cell.value)
      [] cell.kind = "Match" -> Range(cell.value) \cup {cell.en}
      [] cell.kind = "AssignmentList" ->
            Range(cell.default)
            \cup NetsOf([k \in 1..Len(cell.assignments) |->
                            <<cell.assignments[k].cond>> \o cell.assignments[k].value])
      [] cell.kind = "FlipFlop" ->
            Range(cell.data) \cup {cell.clk}
            \cup (IF cell.arst = NetConst(0) THEN {} ELSE {cell.arst})
      [] cell.kind = "SyncWritePort" ->
            Range(cell.addr) \cup Range(cell.data) \cup Range(cell.en) \cup {cell.clk}
      [] cell.kind = "SyncReadPort" -> Range(cell.addr) \cup {cell.clk, cell.en}
      [] cell.kind = "AsyncReadPort" -> Range(cell.addr)
      [] cell.kind = "Instance" ->
            NetsOf([k \in 1..Len(cell.ports_i) |-> cell.ports_i[k][2]])
      [] cell.kind = "IOBuffer" -> Range(cell.o) \cup {cell.oe}
      [] OTHER -> {}

\* The nets the operands of the lines of the emission pass refer to: those
\* of the cells, of the module outputs and of the name records.
ReferencedNets ==
    UNION {OperandNets(em.netlist.cells[c]) : c \in 1..Len(em.netlist.cells)}
    \cup NetsOf([k \in 1..Len(em.netlist.ports_o) |-> em.netlist.ports_o[k][2]])
    \cup UNION {NetsOf([k \in 1..Len(em.netlist.modules[m].signal_names) |->
                            em.netlist.modules[m].signal_names[k].value]) :
                m \in 1..Len(em.netlist.modules)}

LineGroup(line) ==
    CASE line.kind = "io" -> 1
      [] line.kind = "meta" /\ line.op = "scope" -> 2
      [] line.kind = "meta" -> 0
      [] line.kind = "ucell" /\ line.op = "input" -> 3
      [] line.kind = "ucell" /\ line.op = "output" -> 5
      [] line.kind = "ucell" /\ line.op = "name" -> 6
      [] OTHER -> 4

\* The lines of the cells.
CellLines == {i \in 1..Len(em.lines) : LineGroup(em.lines[i]) = 4}

\* The instruction line a line of a cell belongs to: itself, or for a line of
\* a nested block the instruction line that opens the block.
OwnerLine(i) ==
    CHOOSE j \in 1..i :
        /\ em.lines[j].kind = "ucell"
        /\ \A k \in (j + 1)..i : em.lines[k].kind # "ucell"

\* The index of the cell a line of a cell belongs to.
CellOfLine(i) ==
    CHOOSE c \in DOMAIN em.cell_map :
        \E k \in 1..Len(em.cell_map[c]) : em.cell_map[c][k] = em.lines[OwnerLine(i)].id

\* The metadata ids a line refers to.
MetaUses(line) ==
    CASE line.kind = "ucell" ->
            {n \in 0..(em.next_meta - 1) :
                \E k \in 1..Len(line.data) :
                    \/ line.data[k].t = "meta" /\ line.data[k].n = n
                    \/ line.data[k].t = "str" /\ line.data[k].text = "!" \o IntStr(n)}
      [] line.kind = "meta" /\ line.op = "set" -> Range(line.data)
      [] line.kind = "meta" /\ line.op = "ident" -> {line.data[2]}
      [] line.kind = "meta" /\ line.op = "scope" ->
            LET module == em.netlist.modules[line.data + 1] IN
            (IF module.parent # None THEN {em.module_meta[module.parent]} ELSE {})
            \cup (IF module.src_loc # NoSrcLoc THEN {em.src_loc_meta[module.src_loc]} ELSE {})
      [] OTHER -> {}

\* The lines other than the free metadata records are in the order of their
\* groups; the lines of the cells are in the order of the cell list, those of
\* one cell with nothing in between.
GroupsInOrder ==
    /\ \A i, j \in 1..Len(em.lines) :
          (i < j /\ LineGroup(em.lines[i]) # 0 /\ LineGroup(em.lines[j]) # 0)
             => LineGroup(em.lines[i]) <= LineGroup(em.lines[j])
    /\ \A i, j \in CellLines :
          i < j =>
             /\ CellOfLine(i) <= CellOfLine(j)
             /\ CellOfLine(i) = CellOfLine(j) => \A k \in i..j : k \in CellLines

\* Each metadata record other than a scope record is referred to by a line
\* after it, with none but metadata records in between.
MetaBeforeFirstUse ==
    \A i \in 1..Len(em.lines) :
        LineGroup(em.lines[i]) = 0 =>
           \E j \in (i + 1)..Len(em.lines) :
              /\ em.lines[i].id \in MetaUses(em.lines[j])
              /\ \A k \in (i + 1)..(j - 1) : em.lines[k].kind = "meta"

\* Each metadata id a line refers to is that of a record before the line, and
\* no metadata record stands before an IO port declaration.
MetaBeforeUse ==
    /\ \A j \in 1..Len(em.lines) :
          \A n \in MetaUses(em.lines[j]) :
             \E i \in 1..(j - 1) : em.lines[i].kind = "meta" /\ em.lines[i].id = n
    /\ \A i, j \in 1..Len(em.lines) :
          (em.lines[i].kind = "meta" /\ em.lines[j].kind = "io") => j < i

\* C13, as stated: the lines of a returned text are in the order IO ports,
\* scope records, inputs, cells in the order of the cell list (the lines of a
\* cell together), outputs, names; the other metadata records stand right
\* before their first use.
C13_LineOrderFirstUse == pc = "returned" => GroupsInOrder /\ MetaBeforeFirstUse

\* C13, amended: the lines of a returned text are in the order IO ports,
\* scope records, inputs, cells in the order of the cell list (the lines of a
\* cell together), outputs, names; the other metadata records stand after
\* the IO ports and before every line that refers to them, and need not be
\* referred to at all.
C13_LineOrder == pc = "returned" => GroupsInOrder /\ MetaBeforeUse

\* A text was returned with the lines of two cells, an instruction after a
\* nested block, and a merged-set record that no line refers to.
C13_Witness ==
    /\ pc = "returned"
    /\ \E i, j \in CellLines :
          /\ i < j
          /\ CellOfLine(i) < CellOfLine(j)
          /\ em.lines[i].kind = "sub"
    /\ \E i \in 1..Len(em.lines) :
          /\ em.lines[i].kind = "meta" /\ em.lines[i].op = "set"
          /\ \A j \in 1..Len(em.lines) : em.lines[i].id \notin MetaUses(em.lines[j])

\* ------------------------------------------------ repeated runs (SpecTwice)

\* An Emitter used for a second run: its lines dropped, the rest kept.
emitter_reused(e) == [e EXCEPT !.lines = <<>>]

\* Emitter(netlist) in convert_fragment (line 557): each run has an Emitter of
\* its own, made by __init__ from the netlist alone.
emitter_for(e) == Emitter(e.netlist)

\* What a run leaves to be compared: the text, text and ids of the lines,
\* the slots and the counters.
Outcome(e, text) ==
    [ out        |-> text,
      texts      |-> [i \in 1..Len(e.lines) |-> e.lines[i].text],
      kinds      |-> [i \in 1..Len(e.lines) |-> e.lines[i].kind],
      ids        |-> [i \in 1..Len(e.lines) |-> e.lines[i].id],
      widths     |-> [i \in 1..Len(e.lines) |-> e.lines[i].width],
      ucell_width |-> e.ucell_width,
      next_ucell |-> e.next_ucell,
      next_meta  |-> e.next_meta ]

\* convert_fragment called once more on an equal netlist, after the first
\* call has returned; calls keeps the outcome of the first call.
RunAgain ==
    /\ pc = "returned"
    /\ calls = <<>>
    /\ calls' = <<Outcome(em, out)>>
    /\ em' = emitter_for(em)
    /\ arg' = 0
    /\ out' = ""
    /\ pc' = "ios"

NextTwice == NextRun \/ RunAgain

SpecTwice == Init /\ [][NextTwice]_vars

WidePortOptions ==
    {<<"SyncWritePort", 1, 1>>, <<"AsyncReadPort", 2, 1>>}
    \cup {<<kind, 1, w>> : kind \in {"SyncReadPort", "AsyncReadPort"}, w \in 0..MaxPortWidth}

WidePortCell(port) ==
    CASE port[1] = "SyncWritePort" ->
            SyncWritePort(port[2], << <<0, 1>> >>, << <<0, 0>> >>, << <<0, 2>> >>, <<0, 3>>, "pos")
      [] port[1] = "SyncReadPort" ->
            SyncReadPort(port[2], port[3], << <<0, 0>> >>, <<0, 2>>, <<0, 3>>, "pos", {})
      [] OTHER -> AsyncReadPort(port[2], port[3], << <<0, 0>> >>)

\* A netlist of two memories, cells 1 and 2, and the given ports after them.
WidePortsNetlist(ports) ==
    Netlist(<<Top, Memory(1, 2, <<>>, <<>>), Memory(1, 2, <<>>, <<>>)>>
                \o [k \in 1..Len(ports) |-> WidePortCell(ports[k])],
            <<>>,
            <<Module(<< <<"t", "o", "p">> >>, None, NoSrcLoc, <<>>)>>,
            MemoryInputs,
            <<>>)

InitPorts == \E ports \in StringsUpTo(WidePortOptions, MaxPorts) : InitRun(WidePortsNetlist(ports))

SpecPorts == InitPorts /\ [][NextRun]_vars

\* The cell indices of the cells of the given kinds, in declaration order,
\* that are ports of the given memory.
PortsOf(memory, kinds) ==
    SelectSeq([i \in 1..Len(em.netlist.cells) |-> i - 1],
              LAMBDA p : /\ em.netlist.cells[p + 1].kind \in kinds
                         /\ em.netlist.cells[p + 1].memory = memory)

ReadKinds == {"SyncReadPort", "AsyncReadPort"}

RECURSIVE WidthsBefore(_, _)
\* The sum of the widths of the ports before place k of a list of ports.
WidthsBefore(ports, k) ==
    IF k <= 1 THEN 0
    ELSE WidthsBefore(ports, k - 1) + em.netlist.cells[ports[k - 1] + 1].width

\* The memory cells the reservation pass has gone over.
ReservedMemories ==
    {m \in DOMAIN em.cell_map : em.netlist.cells[m + 1].kind = "Memory"}

\* The nets bound to a bit of the slot ucell.
NetsBoundTo(ucell) ==
    {net \in DOMAIN em.net_map : em.net_map[net].cell = ucell}

\* C11: the single output slot of a memory is as wide as its read ports
\* together; the data nets of the k-th read port are bound to the bits of
\* that slot from the sum of the widths of the earlier read ports on, so that
\* the ranges are disjoint and cover the slot; no net of a write port is
\* bound and no slot is reserved for a write port.
C11_MemorySlotRanges ==
    /\ \A m \in ReservedMemories :
        LET reads == PortsOf(m, ReadKinds)
            ucell == em.cell_map[m][1]
        IN  /\ Len(em.cell_map[m]) = 1
            /\ em.ucell_width[ucell] = WidthsBefore(reads, Len(reads) + 1)
            /\ \A k \in 1..Len(reads) :
                  \A bit \in 0..(em.netlist.cells[reads[k] + 1].width - 1) :
                     /\ <<reads[k], bit>> \in DOMAIN em.net_map
                     /\ em.net_map[<<reads[k], bit>>] =
                           UnnamedNet(ucell, WidthsBefore(reads, k) + bit)
            /\ {em.net_map[net].bit : net \in NetsBoundTo(ucell)} = 0..(em.ucell_width[ucell] - 1)
            /\ Cardinality(NetsBoundTo(ucell)) = em.ucell_width[ucell]
    /\ \A p \in 0..(Len(em.netlist.cells) - 1) :
          em.netlist.cells[p + 1].kind = "SyncWritePort" =>
             /\ p \notin DOMAIN em.cell_map
             /\ \A net \in DOMAIN em.net_map : net[1] # p
    /\ pc \in {"emit", "names", "return", "returned"} =>
          Cardinality(DOMAIN em.ucell_width)
             = Len(em.netlist.ports_i)
               + Cardinality({c \in 1..Len(em.netlist.cells) : em.netlist.cells[c].kind = "Memory"})
               + (IF pc = "emit" THEN 0 ELSE Len(em.netlist.ports_o))

\* A text was returned for a memory with a write port and two read ports of
\* different widths, the second one starting above bit 0 of the slot.
C11_Witness ==
    /\ pc = "returned"
    /\ \E m \in ReservedMemories :
          LET reads == PortsOf(m, ReadKinds) IN
          /\ Len(reads) = 2
          /\ Len(PortsOf(m, {"SyncWritePort"})) = 1
          /\ em.netlist.cells[reads[1] + 1].width = 1
          /\ em.netlist.cells[reads[2] + 1].width = 2
          /\ em.net_map[<<reads[2], 1>>] = UnnamedNet(em.cell_map[m][1], 2)

\* ------------------------------------------------ aborted runs (SpecAbort)

\* _nir.AnyValue, a cell emit() has no case for.
AnyValue == [kind |-> "AnyValue", module_idx |-> 0, src_loc |-> NoSrcLoc]

\* What a netlist of SpecAbort is built from, one cell per place: cells that
\* are lowered, a cell of a kind emit() has no case for, and cells with a
\* parameter or an attribute whose value has another type.
AbortKinds == {"not", "dff", "instance", "anyvalue", "param", "dff attr", "memory attr",
               "instance attr"}

\* The cell at a place, its operands referring to the input of the module.
AbortCell(kind) ==
    CASE kind = "anyvalue" -> AnyValue
      [] kind = "param" ->
            Instance(<<"t">>, << <<(<<"p">>), IntValue(1)>>, <<(<<"q">>), OtherValue>> >>, <<>>,
                     <<>>, <<>>, <<>>)
      [] kind = "dff attr" ->
            FlipFlop(<< <<0, 0>> >>, 0, <<0, 1>>, "pos", NetConst(0),
                     << <<(<<"k">>), OtherValue>> >>, NoSrcLoc)
      [] kind = "memory attr" ->
            Memory(1, 2, <<>>, << <<(<<"k">>), StrValue(<<"v">>)>>, <<(<<"l">>), OtherValue>> >>)
      [] kind = "instance attr" ->
            Instance(<<"t">>, <<>>, << <<(<<"k">>), OtherValue>> >>, <<>>, <<>>, <<>>)
      [] OTHER -> CellsOf(kind, 0, <<0, 0>>, <<0, 0>>)[1]

AbortNetlist(kinds) ==
    Netlist(<<Top>> \o [g \in 1..Len(kinds) |-> AbortCell(kinds[g])],
            <<IOPort(<<"q">>, 1)>>,
            <<Module(<< <<"t", "o", "p">> >>, None, NoSrcLoc,
                     <<SignalName(<<"x">>, << <<0, 0>> >>, NoSrcLoc)>>)>>,
            << <<(<<"a">>), 0, 1>>, <<(<<"c">>), 1, 1>> >>,
            << <<(<<"o">>), << <<0, 0>> >> >> >>)

InitAbort == \E kinds \in StringsUpTo(AbortKinds, MaxCells) : InitRun(AbortNetlist(kinds))

SpecAbort == InitAbort /\ [][NextRun]_vars

\* The kinds of cell emit() has a case for.
SupportedKinds ==
    {"Top", "Operator", "Part", "Match", "AssignmentList", "FlipFlop", "Memory",
     "SyncWritePort", "SyncReadPort", "AsyncReadPort", "Instance", "IOBuffer"}

\* The cell indices of the cells of an unsupported kind.
UnsupportedCells ==
    {c \in 0..(Len(em.netlist.cells) - 1) : em.netlist.cells[c + 1].kind \notin SupportedKinds}

\* A value that is not an integer, a bit constant or a string occurs in a list
\* of <<name, value>>.
HasOtherValue(items) == \E k \in 1..Len(items) : items[k][2].type \notin {"int", "Const", "str"}

\* The cells with such a value among their attributes or parameters.
BadValueCells ==
    {c \in 0..(Len(em.netlist.cells) - 1) :
        LET cell == em.netlist.cells[c + 1] IN
        \/ cell.kind \in {"FlipFlop", "Memory", "Instance"} /\ HasOtherValue(cell.attributes)
        \/ cell.kind = "Instance" /\ HasOtherValue(cell.parameters)}

\* The least element of a non-empty set of numbers.
Least(S) == CHOOSE x \in S : \A y \in S : x <= y

\* The run has ended: emit() has returned or an exception has left it.
Ended == pc \in {"returned", "raised"}

\* The places of a run at which its next statement can be executed.
RunningAt == {"ios", "scopes", "inputs", "collect", "reserve", "emit", "names", "return"}

\* The instruction lines with the given opcode.
LinesOf(op) ==
    {i \in 1..Len(em.lines) : em.lines[i].kind = "ucell" /\ em.lines[i].op = op}

\* C12: a run ends in one of two ways: it returns the complete text, or an
\* error leaves it and no text is returned. With a cell of an unsupported
\* kind the error names the kind; with a parameter or attribute value that
\* is not an integer, a bit constant or a string the run ends in an error; a
\* text is never returned in part.
C12_ReturnOrAbort ==
    /\ ~Ended => pc \in RunningAt
    /\ (pc = "raised") = (em.raised # NoException)
    /\ pc # "returned" => out = ""
    /\ pc = "returned" =>
          /\ out = JoinLines(em.lines) \o "<nl>"
          /\ Cardinality(LinesOf("output")) = Len(em.netlist.ports_o)
          /\ Cardinality(LinesOf("name")) = 1
          /\ \A c \in 1..(Len(em.netlist.cells) - 1) :
                \E i \in 1..Len(em.lines) :
                   em.lines[i].kind = "ucell" /\ em.lines[i].id = em.cell_map[c][1]
    /\ UnsupportedCells # {} =>
          /\ pc \notin {"emit", "names", "return", "returned"}
          /\ pc = "raised" =>
                em.raised = "TypeError: " \o em.netlist.cells[Least(UnsupportedCells) + 1].kind
                               \o " is not currently supported for Unnamed output"
    /\ BadValueCells # {} =>
          /\ pc \notin {"names", "return", "returned"}
          /\ pc = "raised" => em.raised # NoException /\ em.lines # <<>>

\* A run ended in the error of an unsupported cell that stands after a cell
\* with a value of another type, lines having been produced before.
C12_Witness ==
    /\ pc = "raised"
    /\ UnsupportedCells = {2}
    /\ BadValueCells = {1}
    /\ em.lines # <<>>
    /\ out = ""

\* ------------------------------------------- instance outputs (SpecInstance)

RECURSIVE StartOf(_, _)
\* The start of output port k of an instance whose output ports have the
\* given widths: the ports are laid out one after the other from bit 0.
StartOf(widths, k) == IF k <= 1 THEN 0 ELSE StartOf(widths, k - 1) + widths[k - 1]

\* ports_o of an instance: <<name, start, width>> in the order of the dict.
OutputPorts(widths) ==
    [k \in 1..Len(widths) |-> <<(<<"o", Digit[k]>>), StartOf(widths, k), widths[k]>>]

\* A netlist of one instance with output ports of the given widths.
InstanceNetlist(widths) ==
    Netlist(<<Top, Instance(<<"t">>, <<>>, <<>>, << <<(<<"i">>), << <<0, 0>> >> >> >>,
                            OutputPorts(widths), <<>>)>>,
            <<>>,
            <<Module(<< <<"t", "o", "p">> >>, None, NoSrcLoc, <<>>)>>,
            << <<(<<"a">>), 0, 1>> >>,
            <<>>)

InitInstance ==
    \E widths \in StringsUpTo(0..MaxPortWidth, MaxPorts) : InitRun(InstanceNetlist(widths))

SpecInstance == InitInstance /\ [][NextRun]_vars

\* The output lines of the nested block of the instance, in their order.
OutputLines == SelectSeq(em.lines, LAMBDA line : line.kind = "sub" /\ line.op = "output")

\* C15: for every output port (name, start, width) of an instance, of any
\* width, the slot id on the output line of the port is the id of the slot
\* reserved for the port, the one the nets of the port are bound to, and the
\* width on the line is the width recorded for that slot; the slots of
\* different ports are different.
C15_InstanceOutputSlots ==
    pc = "returned" =>
        LET ports_o == em.netlist.cells[2].ports_o IN
        /\ Len(OutputLines) = Len(ports_o)
        /\ \A k \in 1..Len(ports_o) :
              /\ OutputLines[k].id \in DOMAIN em.ucell_width
              /\ OutputLines[k].width = ports_o[k][3]
              /\ em.ucell_width[OutputLines[k].id] = OutputLines[k].width
              /\ \A bit \in 0..(ports_o[k][3] - 1) :
                    em.net_map[<<1, ports_o[k][2] + bit>>] = UnnamedNet(OutputLines[k].id, bit)
              /\ \A j \in 1..Len(ports_o) : j # k => OutputLines[j].id # OutputLines[k].id

\* ------------------------------------------- the two passes (SpecPasses)

\* A netlist of one AssignmentList with count assignments over a default of
\* width w, all of them taking the input a.
AssignNetlist(count, w) ==
    Netlist(<<Top, AssignmentList(CellNets(0, 0, w),
                                  [k \in 1..count |-> Assignment(<<0, w>>, 0, CellNets(0, 0, w))])>>,
            <<>>,
            <<Module(<< <<"t", "o", "p">> >>, None, NoSrcLoc, <<>>)>>,
            << <<(<<"a">>), 0, w>>, <<(<<"s">>), w, 1>> >>,
            << <<(<<"o">>), CellNets(1, 0, w)>> >>)

\* The netlists of SpecLower, Spec and SpecInstance, and the assignment
\* lists of every length down to none.
InitPasses ==
    \/ InitLower
    \/ Init
    \/ InitInstance
    \/ \E count \in 0..MaxPorts : \E w \in 0..MaxWidth : InitRun(AssignNetlist(count, w))

SpecPasses == InitPasses /\ [][NextRun]_vars

\* The instruction lines of the output, nested lines left out.
UcellLines == {i \in 1..Len(em.lines) : em.lines[i].kind = "ucell"}

\* The lines that open the block of an instance.
InstanceHeaders ==
    {i \in UcellLines :
        \E c \in DOMAIN em.cell_map :
            /\ em.netlist.cells[c + 1].kind = "Instance"
            /\ em.lines[i].id = em.cell_map[c][1]}

\* The instruction lines that define slot s.
DefinedAt(s) == {i \in UcellLines : em.lines[i].id = s}

\* The slot ids of the instruction lines strictly increase down the output.
SlotsIncrease ==
    \A i, j \in UcellLines : i < j => em.lines[i].id < em.lines[j].id

\* The slot ids of the instruction lines before and after line i.
SlotBefore(i) ==
    IF \E j \in UcellLines : j < i
    THEN em.lines[CHOOSE j \in UcellLines : j < i /\ \A k \in UcellLines : k < i => k <= j].id
    ELSE 0 - 1

SlotAfter(i) ==
    IF \E j \in UcellLines : j > i
    THEN em.lines[CHOOSE j \in UcellLines : j > i /\ \A k \in UcellLines : k > i => k >= j].id
    ELSE em.next_ucell

\* Every reserved slot is defined by exactly one line with the width
\* recorded for it, the lines in Defining counting as definitions.
EverySlotOnce(Defining) ==
    /\ \A s \in DOMAIN em.ucell_width :
          Cardinality({i \in Defining : em.lines[i].id = s}) = 1
    /\ \A i \in Defining :
          /\ em.lines[i].id \in DOMAIN em.ucell_width
          /\ em.lines[i].width = em.ucell_width[em.lines[i].id]

\* C16, as stated: every slot reserved in the reservation pass is defined by
\* exactly one instruction line of the emission pass, with the width recorded
\* for it, and the slot ids of the instruction lines strictly increase;
\* whether the output lines of the block of an instance count as instruction
\* lines or not.
C16_EverySlotOneLine ==
    pc = "returned" =>
        /\ SlotsIncrease
        /\ \/ EverySlotOnce(UcellLines)
           \/ EverySlotOnce(UcellLines
                 \cup {i \in 1..Len(em.lines) : em.lines[i].kind = "sub" /\ em.lines[i].op = "output"})

\* C16, amended: every slot cached for a cell other than an instance is
\* defined by exactly one instruction line, which carries the width recorded
\* for the slot; an instruction line defines a reserved slot and, unless it
\* opens the block of an instance, carries its recorded width; the slot ids
\* of the instruction lines strictly increase; a reserved slot that no
\* instruction line defines lies between the instruction lines around the
\* line that opens the block of an instance.
C16_PassesAgree ==
    pc = "returned" =>
        /\ SlotsIncrease
        /\ \A i \in UcellLines :
              /\ em.lines[i].id \in DOMAIN em.ucell_width
              /\ IF i \in InstanceHeaders THEN em.lines[i].width = None
                 ELSE em.lines[i].width = em.ucell_width[em.lines[i].id]
        /\ \A c \in DOMAIN em.cell_map :
              em.netlist.cells[c + 1].kind # "Instance" =>
                 \A k \in 1..Len(em.cell_map[c]) :
                    /\ Cardinality(DefinedAt(em.cell_map[c][k])) = 1
                    /\ DefinedAt(em.cell_map[c][k]) \cap InstanceHeaders = {}
        /\ \A s \in DOMAIN em.ucell_width :
              DefinedAt(s) = {} =>
                 \E i \in InstanceHeaders : SlotBefore(i) < s /\ s < SlotAfter(i)
        /\ Cardinality(InstanceHeaders)
              = Cardinality({c \in DOMAIN em.cell_map : em.netlist.cells[c + 1].kind = "Instance"})

\* Texts were returned for an r^ over an empty input and for an assignment
\* list without assignments, each with its slots defined.
C16_Witness ==
    /\ pc = "returned"
    /\ Len(em.netlist.cells) = 2
    /\ \/ /\ em.netlist.cells[2].kind = "AssignmentList"
          /\ em.netlist.cells[2].assignments = <<>>
          /\ Len(em.netlist.cells[2].default) = MaxWidth
          /\ Cardinality(DefinedAt(em.cell_map[1][1])) = 1
       \/ /\ em.netlist.cells[2].kind = "Operator"
          /\ em.netlist.cells[2].operator = "u//"
          /\ em.netlist.cells[2].width = MaxWidth
          /\ \A k \in 1..3 : Cardinality(DefinedAt(em.cell_map[1][k])) = 1

\* ---------------------------------------------- rendering runs (SpecRender)

InitRender ==
    /\ em = InitEmitter
    /\ calls = <<>>
    /\ arg = <<>>
    /\ out = ""
    /\ pc = "slots"

\* One call reserve_ucell(width), building the slot table.
RenderReserve(width) ==
    /\ pc = "slots"
    /\ Len(calls) < RenderSlots
    /\ LET r == reserve_ucell(em, width) IN
        /\ em' = r.e
        /\ calls' = Append(calls, [ width  |-> width,
                                    result |-> r.result,
                                    before |-> em.next_ucell,
                                    after  |-> r.e.next_ucell ])
    /\ pc' = "slots"
    /\ UNCHANGED <<arg, out>>

\* The resolved bits there are: the two literals and every bit of every slot.
UnnamedNets(e) ==
    {from_const(0), from_const(1)}
    \cup UNION {{UnnamedNet(u, b) : b \in 0..(e.ucell_width[u] - 1)} : u \in DOMAIN e.ucell_width}

\* One call uvalue_str(uvalue).
Render(uvalue) ==
    /\ pc = "slots"
    /\ arg' = uvalue
    /\ out' = uvalue_str(em, uvalue)
    /\ pc' = "rendered"
    /\ UNCHANGED <<em, calls>>

NextRender ==
    \/ \E width \in 0..RenderWidth : RenderReserve(width)
    \/ \E uvalue \in StringsUpTo(UnnamedNets(em), RenderWidth) : Render(uvalue)

SpecRender == InitRender /\ [][NextRender]_vars

\* The vector is bits 0..width-1, in order, of the slot ucell.
IsFullRange(uvalue, ucell) ==
    /\ Len(uvalue) = em.ucell_width[ucell]
    /\ \A i \in 1..Len(uvalue) : uvalue[i] = UnnamedNet(ucell, i - 1)

IsAllLiteral(uvalue) == \A i \in 1..Len(uvalue) : uvalue[i].cell = None

\* %id for a slot of width 1, %id:width otherwise.
SlotForm(ucell) ==
    IF em.ucell_width[ucell] = 1 THEN "%" \o IntStr(ucell)
    ELSE "%" \o IntStr(ucell) \o ":" \o IntStr(em.ucell_width[ucell])

RECURSIVE DigitForm(_)
\* The binary digits of an all-literal vector, most significant first.
DigitForm(uvalue) ==
    IF uvalue = <<>> THEN "" ELSE DigitForm(Tail(uvalue)) \o Digit[Head(uvalue).bit + 1]

\* C8, as claimed: the full output range of a slot, of any width, renders as
\* %id or %id:width, and an all-literal vector, the empty one included,
\* renders as its digit string.
C8_RenderCanonical ==
    pc = "rendered" =>
        /\ \A ucell \in DOMAIN em.ucell_width :
                IsFullRange(arg, ucell) => out = SlotForm(ucell)
        /\ IsAllLiteral(arg) => out = DigitForm(arg)

\* C8, amended: the same for every vector that is not empty; the empty
\* vector (the full range of a width-0 slot, and the empty literal) renders
\* as [].
C8_RenderCanonicalNonEmpty ==
    pc = "rendered" =>
        /\ arg # <<>> =>
            /\ \A ucell \in DOMAIN em.ucell_width :
                    IsFullRange(arg, ucell) => out = SlotForm(ucell)
            /\ IsAllLiteral(arg) => out = DigitForm(arg)
        /\ arg = <<>> => out = "[]"

\* The full range of a width-1 slot was rendered, next to a wider slot.
C8_Witness ==
    /\ pc = "rendered"
    /\ \E ucell \in DOMAIN em.ucell_width :
        /\ em.ucell_width[ucell] = 1
        /\ IsFullRange(arg, ucell)
    /\ \E ucell \in DOMAIN em.ucell_width : em.ucell_width[ucell] = 2

\* ----------------------------------------------- interner runs (SpecMeta)

\* The modules of the interner runs: the top module.
MetaModules == <<Module(<< <<"t", "o", "p">> >>, None, NoSrcLoc, <<>>)>>

MetaSrcLocs == {<<(<<"f">>), 1>>}

MetaIdents == {<<"x">>}

\* Attribute (name, value) pairs: an int, and two strings that differ.
MetaAttrs ==
    { <<(<<"a">>), IntValue(1)>>,
      <<(<<"a">>), StrValue(<<"<01>">>)>>,
      <<(<<"a">>), StrValue(<<"\\", "0", "1">>)>>,
      <<(<<"b">>), IntValue(1)>> }

\* What one lookup asked for (kind and content), the ids handed to
\* emit_meta_set, the id returned and the number of records it created.
Lookup(kind, chars, num, val, ids, args, result, created) ==
    [ kind    |-> kind,
      content |-> [chars |-> chars, num |-> num, value |-> val, ids |-> ids],
      args    |-> args, result |-> result, created |-> created ]

InitMeta ==
    /\ em = InitEmitter
    /\ calls = {}
    /\ arg = <<>>
    /\ out = <<>>
    /\ pc = "scopes"

\* emit(), "emit scope metadata"; the source locations of the modules are
\* looked up on the way.
MetaScopes ==
    /\ pc = "scopes"
    /\ em' = emit_scopes(em, MetaModules, 0)
    /\ calls' = { Lookup("source", m.src_loc[1], m.src_loc[2], IntValue(0), {}, <<>>,
                         em'.src_loc_meta[m.src_loc], 1) :
                  m \in {x \in Range(MetaModules) : x.src_loc # NoSrcLoc} }
    /\ pc' = "intern"
    /\ UNCHANGED <<arg, out>>

\* The lookups that ask for a record: all but a merge of a single id.
RecordLookups(log) == {x \in log : ~(x.kind = "set" /\ Len(x.args) = 1)}

Contents(log) == {<<x.kind, x.content>> : x \in RecordLookups(log)}

\* The run goes on with the call whose result is r, while the contents
\* looked up fit the bound.
MetaCall(r, kind, chars, num, val, ids, args) ==
    LET lookup == Lookup(kind, chars, num, val, ids, args, r.result,
                         r.e.next_meta - em.next_meta)
    IN  /\ pc = "intern"
        /\ Cardinality(Contents(calls \cup {lookup})) <= MaxContents
        /\ em' = r.e
        /\ calls' = calls \cup {lookup}
        /\ UNCHANGED <<arg, out, pc>>

InternSrcLoc(src_loc) ==
    MetaCall(emit_src_loc(em, src_loc), "source", src_loc[1], src_loc[2], IntValue(0), {}, <<>>)

InternIdent(ident, scope) ==
    MetaCall(emit_ident(em, ident, scope), "ident", ident, scope, IntValue(0), {}, <<>>)

InternAttr(name, val) ==
    MetaCall(emit_attr(em, name, val), "attr", name, 0, val, {}, <<>>)

\* The id lists the callers of emit_meta_set build: for a cell, the scope of
\* its module, then the id of its source location if it has one, then the
\* ids of its attributes, whose names differ (lines 329-332, 452-454); for a
\* name record, the ident and the id of the signal's source location if it
\* has one (lines 545-548).
AttrLists(e) ==
    {<<>>} \cup {<<e.attr_meta[k]>> : k \in DOMAIN e.attr_meta}
           \cup {<<e.attr_meta[p[1]], e.attr_meta[p[2]]>> :
                    p \in {q \in (DOMAIN e.attr_meta) \X (DOMAIN e.attr_meta) : q[1][1] # q[2][1]}}

SrcLists(e) == {<<>>} \cup {<<i>> : i \in Range(e.src_loc_meta)}

MetaParts(e) ==
    {<<scope>> \o src \o attrs :
        scope \in Range(e.module_meta), src \in SrcLists(e), attrs \in AttrLists(e)}
    \cup {<<ident>> \o src : ident \in Range(e.ident_meta), src \in SrcLists(e)}

MergeSet(meta) ==
    MetaCall(emit_meta_set(em, meta), "set", <<>>, 0, IntValue(0), Range(meta), meta)

NextMeta ==
    \/ MetaScopes
    \/ \E src_loc \in MetaSrcLocs : InternSrcLoc(src_loc)
    \/ \E ident \in MetaIdents : \E scope \in Range(em.module_meta) : InternIdent(ident, scope)
    \/ \E a \in MetaAttrs : InternAttr(a[1], a[2])
    \/ \E meta \in MetaParts(em) : MergeSet(meta)

SpecMeta == InitMeta /\ [][NextMeta]_vars

SameContent(x, y) == x.kind = y.kind /\ x.content = y.content

InternRecords == {i \in 1..Len(em.lines) : em.lines[i].op \in {"source", "ident", "attr", "set"}}

\* C6: two lookups with equal content return the same metadata id, two
\* lookups with different content return different ids, and the number of
\* records the lookups created is the number of distinct contents looked up.
C6_InternByContent ==
    pc = "intern" =>
        /\ \A x, y \in RecordLookups(calls) : SameContent(x, y) <=> x.result = y.result
        /\ Cardinality(InternRecords) = Cardinality(Contents(calls))

\* C7: a merge of one id returns that id and creates no record; merges of
\* several ids that form the same set return the same id, and the record of
\* that set is created once.
C7_MergeBySet ==
    \A x \in {c \in calls : c.kind = "set"} :
        IF Len(x.args) = 1
        THEN x.result = x.args[1] /\ x.created = 0
        ELSE /\ \A y \in {c \in calls : c.kind = "set"} :
                    Range(y.args) = Range(x.args) => y.result = x.result
             /\ Cardinality({i \in 1..Len(em.lines) :
                                /\ em.lines[i].op = "set"
                                /\ Range(em.lines[i].data) = Range(x.args)}) = 1
             /\ \E i \in 1..Len(em.lines) :
                    /\ em.lines[i].op = "set"
                    /\ Range(em.lines[i].data) = Range(x.args)
                    /\ em.lines[i].id = x.result

\* The same set of three ids was merged in two argument orders, and a single
\* id was merged.
C7_Witness ==
    /\ \E x, y \in calls :
        /\ x.kind = "set" /\ y.kind = "set"
        /\ Len(x.args) = 3
        /\ x.args # y.args
        /\ Range(x.args) = Range(y.args)
    /\ \E x \in calls : x.kind = "set" /\ Len(x.args) = 1

\* --------------------------------------------- escaping runs (SpecEscape)

\* The characters of the escaped strings: a letter, hex digits, the double
\* quote, the backslash and a byte outside printable ASCII.
EscapeAlphabet == {"x", "0", "1", "\"", "\\", "<01>"}

InitEscape ==
    /\ em = InitEmitter
    /\ calls = <<>>
    /\ arg \in StringsUpTo(EscapeAlphabet, MaxStrLen)
    /\ out = <<>>
    /\ pc = "call"

Escape ==
    /\ pc = "call"
    /\ out' = escape_string(arg)
    /\ pc' = "done"
    /\ UNCHANGED <<em, calls, arg>>

NextEscape == Escape

SpecEscape == InitEscape /\ [][NextEscape]_vars

IsHexDigit(c) == c \in {"0", "1", "2", "3", "4", "5", "6", "7", "8", "9",
                        "a", "b", "c", "d", "e", "f"}

RECURSIVE UnescapeChars(_)
\* Every backslash followed by two hex digits is replaced by the byte they
\* encode.
UnescapeChars(t) ==
    IF t = <<>> THEN <<>>
    ELSE IF Len(t) >= 3 /\ t[1] = "\\" /\ IsHexDigit(t[2]) /\ IsHexDigit(t[3])
         THEN <<"<" \o t[2] \o t[3] \o ">">> \o UnescapeChars(SubSeq(t, 4, Len(t)))
         ELSE <<Head(t)>> \o UnescapeChars(Tail(t))

\* Strip the surrounding double quotes, then unescape.
Unescape(t) == UnescapeChars(SubSeq(t, 2, Len(t) - 1))

\* C9: unescaping escape_string(s) reproduces s, for every string s.
C9_EscapeRoundTrip == pc = "done" => Unescape(out) = arg

====
